---------------------------- MODULE Spec2Model ----------------------------
(***************************************************************************)
(* Model of the auto-vectorization analysis core of                        *)
(* src/hotspot/share/opto/vectorization.cpp:                               *)
(*   - AlignmentSolver::solve                                              *)
(*   - VPointer (address pattern matcher)                                  *)
(*   - VLoopDependenceGraph (build, compute_max_depth, independent)        *)
(*   - VLoop, VLoopBody, VLoopReductions, VLoopTypes, VLoopAnalyzer        *)
(* Each component has its own specification; the variables of the other    *)
(* components stay at their idle value.                                    *)
(***************************************************************************)
EXTENDS Integers, Sequences, FiniteSets, TLC

VARIABLES
  comp,        \* which component this behaviour exercises
  solver_in,   \* AlignmentSolver: the constructor arguments
  solver_out,  \* AlignmentSolver: the AlignmentSolution returned by solve()
  vp_in,       \* VPointer: the memory node, the loop and the mode
  vp_out,      \* VPointer: the object the constructor leaves
  dg_in,       \* dependence graph: the loop body and its memory slices
  dg,          \* dependence graph: the edges and depths build() leaves
  dg_query,    \* dependence graph: the last independent() query and result
  vloop,       \* VLoop: the loop handed to the analyzer
  analyzer     \* VLoopAnalyzer: what its submodules have computed

vars == <<comp, solver_in, solver_out, vp_in, vp_out, dg_in, dg, dg_query,
          vloop, analyzer>>

Idle == [kind |-> "Idle"]

-----------------------------------------------------------------------------
(* Integer helpers with C++ semantics.                                     *)

abs(x) == IF x < 0 THEN -x ELSE x

\* C++ integer division truncates towards zero.
CDiv(a, b) ==
  IF (a >= 0) = (b > 0) THEN abs(a) \div abs(b) ELSE -(abs(a) \div abs(b))

\* C++ remainder: the sign follows the dividend.
CRem(a, b) == a - b * CDiv(a, b)

RECURSIVE Pow2(_)
Pow2(k) == IF k <= 0 THEN 1 ELSE 2 * Pow2(k - 1)

\* is_power_of_2(x): x > 0 with a single bit set.
is_power_of_2(x) == x > 0 /\ \E k \in 0..30 : x = Pow2(k)

\* AlignmentSolution::mod(i, q): remainder with the positive convention.
mod(i, q) ==
  LET r == CRem(i, q) IN IF r >= 0 THEN r ELSE r + q

-----------------------------------------------------------------------------
(* AlignmentSolver                                                         *)

\* Bounds of the solver's input space.
MaxOffset      == 4   \* offsets -MaxOffset..MaxOffset, plus some larger ones
MaxInvarShift  == 3   \* invar_factor is 1 << k, k in 0..MaxInvarShift
MaxInitCon     == 1   \* a constant init is in -1..MaxInitCon
MaxM           == 2   \* the periodic multiplier m ranges over -MaxM..MaxM
MaxVar         == 2   \* runtime var_invar and init range over -MaxVar..MaxVar

OffsetSet    == (-MaxOffset..MaxOffset) \cup {8, 16, 32, -32}
ScaleSet     == {-4, -1, 0, 1, 2, 3, 4, 8}
PreStrideSet == {-2, -1, 1, 3, 4}
UnrollSet    == {1, 2, 8}
AwSet        == {8, 32}

\* _invar and _invar_factor: no invariant (factor 0, see invar_factor()), or
\* an invariant whose biggest detectable factor is 1 << k.
InvarOptions ==
  {[present |-> FALSE, factor |-> 0]} \cup
  {[present |-> TRUE, factor |-> Pow2(k)] : k \in 0..MaxInvarShift}

\* _init_node: a ConI with its value, or a node that is no constant.
InitOptions ==
  {[is_con |-> FALSE, con |-> 0]} \cup
  {[is_con |-> TRUE, con |-> c] : c \in -1..MaxInitCon}

\* The arguments of the AlignmentSolver constructor. invar_present stands for
\* _invar != nullptr, init_is_con for _init_node->is_ConI(), init_con for the
\* value of that constant. main_stride is pre_stride times the unroll factor.
SolverInputs ==
  { [offset |-> o, scale |-> s,
     invar_present |-> iv.present, invar_factor |-> iv.factor,
     init_is_con |-> ini.is_con, init_con |-> ini.con,
     pre_stride |-> ps, main_stride |-> ps * u, aw |-> w] :
      o \in OffsetSet, s \in ScaleSet, iv \in InvarOptions,
      ini \in InitOptions, ps \in PreStrideSet, u \in UnrollSet, w \in AwSet }

C_const_init(a) == IF a.init_is_con THEN a.init_con ELSE 0
C_const(a) == a.offset + C_const_init(a) * a.scale
C_invar(a) == IF ~a.invar_present THEN 0 ELSE abs(a.invar_factor)
C_init(a)  == IF a.init_is_con THEN 0 ELSE a.scale
C_pre(a)   == a.scale * a.pre_stride
C_main(a)  == a.scale * a.main_stride

\* Mutant: C_pre is compared with aw without its absolute value.
eq4_state_SignedPre(C, c_pre, aw) ==
  IF c_pre >= aw
    THEN (IF mod(C, aw) = 0 THEN "TRIVIAL" ELSE "EMPTY")
    ELSE (IF mod(C, abs(c_pre)) = 0 THEN "CONSTRAINED" ELSE "EMPTY")

\* EQ4::State of one of the equations (4a), (4b), (4c).
eq4_state(C, c_pre, aw) ==
  IF abs(c_pre) >= aw
    THEN (IF mod(C, aw) = 0 THEN "TRIVIAL" ELSE "EMPTY")
    ELSE (IF mod(C, abs(c_pre)) = 0 THEN "CONSTRAINED" ELSE "EMPTY")

eq4a_state(a) == eq4_state(C_const(a), C_pre(a), a.aw)
eq4b_state(a) == eq4_state(C_invar(a), C_pre(a), a.aw)
eq4c_state(a) == eq4_state(C_init(a),  C_pre(a), a.aw)

TrivialAlignmentSolution ==
  [kind |-> "Trivial", reason |-> "", q |-> 0, r |-> 0,
   invar_present |-> FALSE, scale |-> 0]

EmptyAlignmentSolution(reason) ==
  [kind |-> "Empty", reason |-> reason, q |-> 0, r |-> 0,
   invar_present |-> FALSE, scale |-> 0]

ConstrainedAlignmentSolution(q, r, invar_present, scale) ==
  [kind |-> "Constrained", reason |-> "", q |-> q, r |-> r,
   invar_present |-> invar_present, scale |-> scale]

ReasonStride == "non power-of-2 stride not supported"
ReasonScale  == "non power-of-2 scale not supported"
ReasonEQ2    == "EQ(2) not satisfied (cannot align across main-loop iterations)"
ReasonEQ4    == "EQ(4a, b, c) not all non-empty: cannot align const, invar and init terms individually"

\* Mutant: the power-of-2 test of the stride is dropped.
StrideSupported_AnyStride(a) == abs(a.pre_stride) # 0

StrideSupported(a) == is_power_of_2(abs(a.pre_stride))

ScaleSupported(a) == ~(abs(a.scale) = 0 \/ ~is_power_of_2(abs(a.scale)))

\* Mutant: EQ(2) is tested on the pre-loop term instead of the main-loop term.
C_main_mod_aw_UsesPre(a) == mod(C_pre(a), a.aw)

C_main_mod_aw(a) == mod(C_main(a), a.aw)

\* Mutant: only (4a) is tested for the trivial solution.
AllTrivial_OnlyConst(a) == eq4a_state(a) = "TRIVIAL"

AllTrivial(a) ==
  /\ eq4a_state(a) = "TRIVIAL"
  /\ eq4b_state(a) = "TRIVIAL"
  /\ eq4c_state(a) = "TRIVIAL"

AnyEmpty(a) ==
  \/ eq4a_state(a) = "EMPTY"
  \/ eq4b_state(a) = "EMPTY"
  \/ eq4c_state(a) = "EMPTY"

solve_q(a) == CDiv(a.aw, abs(C_pre(a)))

\* Mutant: the sign of C_const is lost.
solve_r_NoNegation(a) ==
  mod(CDiv(C_const(a), a.scale * a.pre_stride), solve_q(a))

\* Mutant: the C++ remainder is used instead of AlignmentSolution::mod.
solve_r_CRemainder(a) ==
  CRem(CDiv(-C_const(a), a.scale * a.pre_stride), solve_q(a))

solve_r(a) == mod(CDiv(-C_const(a), a.scale * a.pre_stride), solve_q(a))

solve(a) ==
  IF ~StrideSupported(a) THEN EmptyAlignmentSolution(ReasonStride)
  ELSE IF ~ScaleSupported(a) THEN EmptyAlignmentSolution(ReasonScale)
  ELSE IF C_main_mod_aw(a) # 0 THEN EmptyAlignmentSolution(ReasonEQ2)
  ELSE IF AllTrivial(a) THEN TrivialAlignmentSolution
  ELSE IF AnyEmpty(a) THEN EmptyAlignmentSolution(ReasonEQ4)
  ELSE ConstrainedAlignmentSolution(solve_q(a), solve_r(a),
                                    a.invar_present, a.scale)

SolverInit ==
  /\ comp = "solver"
  /\ solver_in \in SolverInputs
  /\ solver_out = Idle
  /\ vp_in = Idle
  /\ vp_out = Idle
  /\ dg_in = Idle
  /\ dg = Idle
  /\ dg_query = Idle
  /\ vloop = Idle
  /\ analyzer = Idle

Solve ==
  /\ comp = "solver"
  /\ solver_out = Idle
  /\ solver_out' = solve(solver_in)
  /\ UNCHANGED <<comp, solver_in, vp_in, vp_out, dg_in, dg, dg_query, vloop,
               analyzer>>

SolverNext == Solve

SpecSolver == SolverInit /\ [][SolverNext]_vars


-----------------------------------------------------------------------------
(* IR nodes. A node is a record; op is its opcode. Data nodes carry their  *)
(* inputs in1, in2 (in(1), in(2)); constants carry val; a Parm is an       *)
(* opaque value with its basic type bt and the place of its control:       *)
(* "above" the pre-loop head, "between" pre- and main loop, or in the      *)
(* "loop".                                                                 *)

NullNode == [op |-> "null"]
TopNode  == [op |-> "Top"]
iv       == [op |-> "Phi_iv"]

ConI(k) == [op |-> "ConI", val |-> k]
ConL(k) == [op |-> "ConL", val |-> k]
WideConL == [op |-> "ConL", val |-> 0, wide |-> TRUE]
Parm(name, bt, where) ==
  [op |-> "Parm", name |-> name, bt |-> bt, where |-> where]
Unary(op, x)     == [op |-> op, in1 |-> x]
Binary(op, x, y) == [op |-> op, in1 |-> x, in2 |-> y]
AddP(base, adr, off) ==
  [op |-> "AddP", base |-> base, adr |-> adr, off |-> off]

UnaryOps  == {"ConvI2L", "CastII"}
BinaryOps == {"AddI", "SubI", "SubL", "AddL", "MulI", "LShiftI", "LShiftL"}

is_Con(n)  == n.op \in {"ConI", "ConL"}
is_AddP(n) == n.op = "AddP"
is_top(n)  == n.op = "Top"

\* bottom_type()->basic_type() of an integer node.
basic_type(n) ==
  IF n.op \in {"ConL", "ConvI2L", "SubL", "AddL", "LShiftL"} THEN "T_LONG"
  ELSE IF n.op = "Parm" THEN n.bt
  ELSE "T_INT"

\* The place of the control of a node (phase()->get_ctrl(n)): a constant and
\* top sit at the root, a data node sits at the latest of its inputs.
Later(p, q) ==
  IF p = "loop" \/ q = "loop" THEN "loop"
  ELSE IF p = "between" \/ q = "between" THEN "between"
  ELSE "above"

RECURSIVE get_ctrl(_)
get_ctrl(n) ==
  IF n.op \in {"Phi_iv", "Phi_mem", "Load", "Store"} THEN "loop"
  ELSE IF n.op = "Parm" THEN n.where
  ELSE IF n.op \in UnaryOps THEN get_ctrl(n.in1)
  ELSE IF n.op \in BinaryOps THEN Later(get_ctrl(n.in1), get_ctrl(n.in2))
  ELSE IF n.op = "AddP"
    THEN Later(get_ctrl(n.base), Later(get_ctrl(n.adr), get_ctrl(n.off)))
  ELSE "above"

is_loop_member(n) == get_ctrl(n) = "loop"

\* The mutant without the test of the pre-loop head.
invariant_NotMember(n, env) == ~is_loop_member(n)

\* VPointer::invariant(n): in a main loop the control of n must also
\* dominate the pre-loop head.
invariant(n, env) ==
  LET is_not_member == ~is_loop_member(n)
  IN IF is_not_member /\ env.is_main_loop
       THEN get_ctrl(n) = "above"
       ELSE is_not_member

\* All nodes of an expression: the IR that exists before the analysis.
RECURSIVE Subnodes(_)
Subnodes(n) ==
  {n} \cup
  (IF n.op \in UnaryOps THEN Subnodes(n.in1)
   ELSE IF n.op \in BinaryOps THEN Subnodes(n.in1) \cup Subnodes(n.in2)
   ELSE IF n.op = "AddP"
     THEN Subnodes(n.base) \cup Subnodes(n.adr) \cup Subnodes(n.off)
   ELSE {})

-----------------------------------------------------------------------------
(* VPointer. The object under construction is a record: the fields _scale, *)
(* _offset, _invar, _stack_idx of the C++ object, and with them the state  *)
(* shared through pointers: the Node_Stack (nstack) and the IR nodes the   *)
(* analysis registered (created), ir being the IR before the analysis.     *)

NewVPointer(ir) ==
  [scale |-> 0, offset |-> 0, invar |-> NullNode, stack_idx |-> 0,
   nstack |-> <<>>, created |-> {}, ir |-> ir]

Result(ok, st) == [ok |-> ok, st |-> st]

\* _nstack->push(n, _stack_idx++)
nstack_push(n, st) ==
  [st EXCEPT !.nstack = Append(@, <<n, st.stack_idx>>),
             !.stack_idx = @ + 1]

\* VPointer::register_if_new: hash_find_insert returns the node the IR has.
register_if_new(n, st) ==
  IF n \in st.ir \cup st.created THEN st
  ELSE [st EXCEPT !.created = @ \cup {n}]

zerocon(bt) == IF bt = "T_LONG" THEN ConL(0) ELSE ConI(0)

SubNode_make(x, y, bt) ==
  Binary(IF bt = "T_LONG" THEN "SubL" ELSE "SubI", x, y)
AddNode_make(x, y, bt) ==
  Binary(IF bt = "T_LONG" THEN "AddL" ELSE "AddI", x, y)
LShiftNode_make(x, y, bt) ==
  Binary(IF bt = "T_LONG" THEN "LShiftL" ELSE "LShiftI", x, y)

\* VPointer::maybe_negate_invar: the node and the state after it.
maybe_negate_invar(negate, invar, st) ==
  IF negate
    THEN LET bt   == basic_type(invar)
             zero == zerocon(bt)
             sub  == SubNode_make(zero, invar, bt)
         IN [node |-> sub,
             st |-> register_if_new(sub, register_if_new(zero, st))]
    ELSE [node |-> invar, st |-> st]

\* VPointer::maybe_add_to_invar
maybe_add_to_invar(new_invar0, negate, st0) ==
  LET add_to(new_invar, st) ==
        IF st.invar = NullNode
          THEN [st EXCEPT !.invar = new_invar]
          ELSE
            LET new_invar_bt == basic_type(new_invar)
                invar_bt     == basic_type(st.invar)
                bt == IF new_invar_bt = "T_LONG" \/ invar_bt = "T_LONG"
                        THEN "T_LONG" ELSE "T_INT"
                current_invar == IF invar_bt # bt
                                   THEN Unary("ConvI2L", st.invar)
                                   ELSE st.invar
                new_invar2 == IF invar_bt = bt /\ new_invar_bt # bt
                                THEN Unary("ConvI2L", new_invar)
                                ELSE new_invar
                st1 == IF invar_bt # bt
                         THEN register_if_new(current_invar, st)
                       ELSE IF new_invar_bt # bt
                         THEN register_if_new(new_invar2, st)
                       ELSE st
                add == AddNode_make(current_invar, new_invar2, bt)
            IN [register_if_new(add, st1) EXCEPT !.invar = add]
      negated(neg) == add_to(neg.node, neg.st)
  IN negated(maybe_negate_invar(negate, new_invar0, st0))

\* t->higher_equal(TypeLong::INT): the long constant fits into an int. A
\* constant outside the int range is a ConL marked wide (its value is not
\* representable here and is never read).
fits_int(n) == "wide" \notin DOMAIN n

\* VPointer::offset_plus_k
offset_plus_k(n, negate, st0, env) ==
  IF n.op = "ConI"
    THEN Result(TRUE, [st0 EXCEPT !.offset =
                         @ + (IF negate THEN -n.val ELSE n.val)])
  ELSE IF n.op = "ConL"
    THEN (IF fits_int(n)
            THEN Result(TRUE, [st0 EXCEPT !.offset =
                                 @ + (IF negate THEN -n.val ELSE n.val)])
            ELSE Result(FALSE, st0))
  ELSE
    LET st == IF env.analyze_only /\ is_loop_member(n)
                THEN nstack_push(n, st0) ELSE st0
        sgn(k, neg) == IF neg THEN -k ELSE k
    IN IF n.op = "AddI" /\ is_Con(n.in2) /\ invariant(n.in1, env)
         THEN Result(TRUE,
                [maybe_add_to_invar(n.in1, negate, st) EXCEPT
                   !.offset = @ + sgn(n.in2.val, negate)])
       ELSE IF n.op = "AddI" /\ is_Con(n.in1) /\ invariant(n.in2, env)
         THEN Result(TRUE,
                maybe_add_to_invar(n.in2, negate,
                  [st EXCEPT !.offset = @ + sgn(n.in1.val, negate)]))
       ELSE IF n.op = "SubI" /\ is_Con(n.in2) /\ invariant(n.in1, env)
         THEN Result(TRUE,
                [maybe_add_to_invar(n.in1, negate, st) EXCEPT
                   !.offset = @ + sgn(n.in2.val, ~negate)])
       ELSE IF n.op = "SubI" /\ is_Con(n.in1) /\ invariant(n.in2, env)
         THEN Result(TRUE,
                maybe_add_to_invar(n.in2, ~negate,
                  [st EXCEPT !.offset = @ + sgn(n.in1.val, negate)]))
       ELSE IF ~is_loop_member(n)
         THEN LET n1 == IF n.op = "ConvI2L" THEN n.in1 ELSE n
                  n2 == IF n1.op = "CastII" THEN n1.in1 ELSE n1
              IN IF invariant(n2, env)
                   THEN Result(TRUE, maybe_add_to_invar(n2, negate, st))
                   ELSE Result(FALSE, st)
       ELSE Result(FALSE, st)

RECURSIVE scaled_iv_plus_offset(_, _, _)
RECURSIVE scaled_iv(_, _, _)

\* VPointer::scaled_iv_plus_offset. A failed alternative keeps what it wrote
\* to the object: the next alternative starts from that state. The local
\* operators are the steps in the order of the code: scaled_iv(n), then
\* offset_plus_k(n), then for AddI and SubI/SubL the first alternative
\* (offset_plus_k(in(2)) && scaled_iv_plus_offset(in(1))) and the second
\* (offset_plus_k(in(1)) && scaled_iv_plus_offset(in(2))), after which a
\* subtraction sets _scale *= -1.
scaled_iv_plus_offset(n, st0, env) ==
  LET second_matched(d, sub) ==
        IF d.ok /\ sub
          THEN Result(TRUE, [d.st EXCEPT !.scale = @ * (-1)])
          ELSE d
      second_rest(c, sub) ==
        IF c.ok
          THEN second_matched(scaled_iv_plus_offset(n.in2, c.st, env), sub)
          ELSE Result(FALSE, c.st)
      second(st, sub) ==
        second_rest(offset_plus_k(n.in1, FALSE, st, env), sub)
      first_matched(b, sub) == IF b.ok THEN b ELSE second(b.st, sub)
      first(a, sub) ==
        IF a.ok
          THEN first_matched(scaled_iv_plus_offset(n.in1, a.st, env), sub)
          ELSE second(a.st, sub)
      after_offset_plus_k(r2) ==
        IF r2.ok THEN r2
        ELSE IF n.op = "AddI"
          THEN first(offset_plus_k(n.in2, FALSE, r2.st, env), FALSE)
        ELSE IF n.op \in {"SubI", "SubL"}
          THEN first(offset_plus_k(n.in2, TRUE, r2.st, env), TRUE)
        ELSE Result(FALSE, r2.st)
      after_scaled_iv(r1) ==
        IF r1.ok THEN r1
        ELSE after_offset_plus_k(offset_plus_k(n, FALSE, r1.st, env))
  IN after_scaled_iv(scaled_iv(n, st0, env))

\* VPointer::scaled_iv
scaled_iv(n, st0, env) ==
  IF st0.scale # 0 THEN Result(FALSE, st0)
  ELSE IF n = iv THEN Result(TRUE, [st0 EXCEPT !.scale = 1])
  ELSE
    LET st == IF env.analyze_only /\ is_loop_member(n)
                THEN nstack_push(n, st0) ELSE st0
    IN IF n.op = "MulI"
         THEN IF n.in1 = iv /\ is_Con(n.in2)
                THEN Result(TRUE, [st EXCEPT !.scale = n.in2.val])
              ELSE IF n.in2 = iv /\ is_Con(n.in1)
                THEN Result(TRUE, [st EXCEPT !.scale = n.in1.val])
              ELSE Result(FALSE, st)
       ELSE IF n.op = "LShiftI"
         THEN IF n.in1 = iv /\ is_Con(n.in2)
                THEN Result(TRUE, [st EXCEPT !.scale = Pow2(n.in2.val)])
                ELSE Result(FALSE, st)
       ELSE IF n.op \in {"ConvI2L", "CastII"}
         THEN scaled_iv_plus_offset(n.in1, st, env)
       ELSE IF n.op = "LShiftL" /\ is_Con(n.in2)
         THEN
           \* VPointer tmp(this): fresh fields, the same nstack and IR.
           LET tmp0 == [st EXCEPT !.scale = 0, !.offset = 0,
                                  !.invar = NullNode]
               matched(t) ==
                 LET tmp == t.st
                     shared == [st EXCEPT !.nstack = tmp.nstack,
                                          !.created = tmp.created]
                     scale == n.in2.val
                     st1 == [shared EXCEPT
                               !.scale = tmp.scale * Pow2(scale),
                               !.offset = @ + tmp.offset * Pow2(scale)]
                     shl == LShiftNode_make(tmp.invar, n.in2,
                                            basic_type(tmp.invar))
                 IN IF t.ok
                      THEN Result(TRUE,
                             IF tmp.invar # NullNode
                               THEN maybe_add_to_invar(shl, FALSE,
                                      register_if_new(shl, st1))
                               ELSE st1)
                      ELSE Result(FALSE, shared)
           IN matched(scaled_iv_plus_offset(n.in1, tmp0, env))
       ELSE Result(FALSE, st)

\* Mutant: the loop looks at the first AddP only.
peel_AddP_Once(adr, base, st, env) ==
  LET matched(r) == [ok |-> r.ok, st |-> r.st, adr |-> adr.adr]
  IN matched(scaled_iv_plus_offset(adr.off, st, env))

\* The loop of the constructor over the AddP chain: match the offset of adr,
\* step to its address input, stop at base or at a node that is no AddP.
RECURSIVE peel_AddP(_, _, _, _)
peel_AddP(adr, base, st, env) ==
  LET next == adr.adr
      matched(r) ==
        IF ~r.ok THEN [ok |-> FALSE, st |-> r.st, adr |-> next]
        ELSE IF base = next \/ ~is_AddP(next)
          THEN [ok |-> TRUE, st |-> r.st, adr |-> next]
        ELSE peel_AddP(next, base, r.st, env)
  IN matched(scaled_iv_plus_offset(adr.off, st, env))

\* The object a constructor leaves: _mem, the matched fields, _base, _adr.
VPointerObject(mem, st, base, adr) ==
  [mem |-> mem, scale |-> st.scale, offset |-> st.offset, invar |-> st.invar,
   nstack |-> st.nstack, created |-> st.created,
   base |-> base, adr |-> adr]

\* VPointer::VPointer(mem, vloop, nstack, analyze_only)
VPointer(mem, env) ==
  LET adr  == mem.adr
      st0  == NewVPointer(Subnodes(adr))
      Invalid(st) == VPointerObject(mem, st, NullNode, NullNode)
  IN IF ~is_AddP(adr) THEN Invalid(st0)
     ELSE
       LET base == adr.base
       IN IF is_loop_member(base) THEN Invalid(st0)
          ELSE IF is_top(base) /\ ~env.misaligned_vectors_ok
            THEN Invalid(st0)
          ELSE
            LET peeled(p) ==
                  IF ~p.ok THEN Invalid(p.st)
                  ELSE IF is_loop_member(p.adr) THEN Invalid(p.st)
                  ELSE IF ~is_top(base) /\ p.adr # base THEN Invalid(p.st)
                  ELSE VPointerObject(mem, p.st, base, p.adr)
            IN peeled(peel_AddP(adr, base, st0, env))

\* VPointer::valid()
valid(p) == p.adr # NullNode

-----------------------------------------------------------------------------
(* The memory nodes the VPointer specification analyzes.                   *)

x_above   == Parm("x", "T_INT", "above")
w_between == Parm("w", "T_INT", "between")
v_loop    == Parm("v", "T_INT", "loop")
y_long    == Parm("y", "T_LONG", "above")

base_a    == Parm("a", "T_ADDRESS", "above")
base_b    == Parm("b", "T_ADDRESS", "above")
base_loop == Parm("c", "T_ADDRESS", "loop")
raw_adr   == Parm("p", "T_ADDRESS", "above")
raw_loop  == Parm("q", "T_ADDRESS", "loop")

IntAtoms   == {iv, ConI(3), x_above, w_between, v_loop}
IntOuter   == {iv, ConI(3), x_above}

ScaledIvs  == {Binary("MulI", iv, ConI(2)), Binary("MulI", ConI(2), iv),
               Binary("LShiftI", iv, ConI(1))}

IntLevel1 ==
  ScaledIvs
  \cup {Binary(op, a, b) : op \in {"AddI", "SubI"}, a \in IntAtoms,
                           b \in IntAtoms}
  \cup {Unary("CastII", a) : a \in IntAtoms}

IntLevel2 ==
  {Binary(op, a, e) : op \in {"AddI", "SubI"}, a \in IntOuter,
                      e \in IntLevel1}
  \cup {Binary(op, e, a) : op \in {"AddI", "SubI"}, a \in IntOuter,
                           e \in IntLevel1}

IntExprs == IntAtoms \cup IntLevel1 \cup IntLevel2

\* Offsets of an AddP are long values.
LongSmall ==
  {ConL(16), WideConL, y_long, Binary("LShiftL", y_long, ConI(1))}
  \cup {Unary("ConvI2L", e) : e \in IntAtoms \cup ScaledIvs}

LongExprs ==
  LongSmall
  \cup {Unary("ConvI2L", e) : e \in IntExprs}
  \cup {Binary("LShiftL", Unary("ConvI2L", e), ConI(2)) : e \in IntExprs}
  \cup {Binary("SubL", y_long, Unary("ConvI2L", e)) : e \in IntLevel1}
  \cup {Binary("SubL", Unary("ConvI2L", e), y_long) : e \in IntLevel1}

\* mem->in(MemNode::Address)
Addresses ==
  {AddP(base_a, base_a, off) : off \in LongExprs}
  \cup {AddP(base_a, AddP(base_a, base_a, off), k) :
          off \in LongSmall, k \in LongSmall}

OddAddresses ==
  {raw_adr}
  \cup {AddP(b, a, off) : b \in {base_a, base_loop, TopNode},
                          a \in {base_a, base_b, raw_adr, raw_loop},
                          off \in {ConL(16), Unary("ConvI2L", iv)}}

Envs(misaligned) ==
  [analyze_only : BOOLEAN, is_main_loop : BOOLEAN,
   misaligned_vectors_ok : misaligned]

VPointerInputs ==
  {[mem |-> [adr |-> adr], env |-> env] :
     adr \in Addresses, env \in Envs({TRUE})}
  \cup {[mem |-> [adr |-> adr], env |-> env] :
          adr \in OddAddresses, env \in Envs(BOOLEAN)}

VPointerInit ==
  /\ comp = "vpointer"
  /\ vp_in \in VPointerInputs
  /\ vp_out = Idle
  /\ solver_in = Idle
  /\ solver_out = Idle
  /\ dg_in = Idle
  /\ dg = Idle
  /\ dg_query = Idle
  /\ vloop = Idle
  /\ analyzer = Idle

Construct ==
  /\ comp = "vpointer"
  /\ vp_out = Idle
  /\ vp_out' = VPointer(vp_in.mem, vp_in.env)
  /\ UNCHANGED <<comp, vp_in, solver_in, solver_out, dg_in, dg, dg_query, vloop,
               analyzer>>

VPointerNext == Construct

SpecVPointer == VPointerInit /\ [][VPointerNext]_vars

-----------------------------------------------------------------------------
(* VPointer: the value of an address.                                      *)

\* The value of a node for a value of iv and values rho of the Parm nodes,
\* computed with unbounded integers.
RECURSIVE Eval(_, _, _)
Eval(n, ivv, rho) ==
  IF n.op = "Phi_iv" THEN ivv
  ELSE IF n.op \in {"ConI", "ConL"} THEN n.val
  ELSE IF n.op = "Parm" THEN rho[n.name]
  ELSE IF n.op \in UnaryOps THEN Eval(n.in1, ivv, rho)
  ELSE IF n.op \in {"AddI", "AddL"}
    THEN Eval(n.in1, ivv, rho) + Eval(n.in2, ivv, rho)
  ELSE IF n.op \in {"SubI", "SubL"}
    THEN Eval(n.in1, ivv, rho) - Eval(n.in2, ivv, rho)
  ELSE IF n.op = "MulI"
    THEN Eval(n.in1, ivv, rho) * Eval(n.in2, ivv, rho)
  ELSE IF n.op \in {"LShiftI", "LShiftL"}
    THEN Eval(n.in1, ivv, rho) * Pow2(Eval(n.in2, ivv, rho))
  ELSE IF n.op = "AddP"
    THEN Eval(n.adr, ivv, rho) + Eval(n.off, ivv, rho)
  ELSE 0

MaxIv == 2   \* iv ranges over 0..MaxIv

ParmValues ==
  {[x |-> vx, w |-> vw, y |-> vy, v |-> 1,
    a |-> 1000, b |-> 2000, c |-> 3000, p |-> 4000, q |-> 5000] :
     vx \in {0, 5}, vw \in {0, 11}, vy \in {0, 7}}

Constructed == comp = "vpointer" /\ vp_out # Idle

\* C1: if the constructor ends valid(), then for every value of iv and of
\* the invariants the address of mem equals base (adr) + offset + invar +
\* scale * iv.
C1_VPointerSound ==
  (Constructed /\ valid(vp_out)) =>
    \A ivv \in 0..MaxIv, rho \in ParmValues :
      Eval(vp_in.mem.adr, ivv, rho) =
        Eval(vp_out.adr, ivv, rho) + vp_out.offset
          + Eval(vp_out.invar, ivv, rho) + vp_out.scale * ivv


-----------------------------------------------------------------------------
(* AlignmentSolver: the address the solution is about.                     *)
(*   adr = base + offset + invar + scale * iv                              *)
(*   iv  = init + pre_stride * pre_iter + main_stride * main_iter          *)
(* base is aw-aligned, so only the rest is computed here.                  *)

RuntimeIv(a, init, pre_iter, main_iter) ==
  (IF a.init_is_con THEN a.init_con ELSE init)
    + a.pre_stride * pre_iter + a.main_stride * main_iter

RuntimeAdr(a, invar, init, pre_iter, main_iter) ==
  a.offset + (IF a.invar_present THEN invar ELSE 0)
    + a.scale * RuntimeIv(a, init, pre_iter, main_iter)

Aligned(adr, aw) == adr % aw = 0

Solved == comp = "solver" /\ solver_out # Idle

\* C2: if solve returns Constrained{q, r, invar, scale}, then for every m and
\* every runtime invar (a multiple of C_invar) and init, the divisions of
\* pre_iter = m*q + r - invar/(scale*pre_stride) - init/pre_stride are exact
\* and the address at main-loop iteration 0 is aw-aligned.
C2_AlignmentSoundness ==
  (Solved /\ solver_out.kind = "Constrained") =>
    LET a  == solver_in
        sp == a.scale * a.pre_stride
    IN \A m \in -MaxM..MaxM, var_invar \in -MaxVar..MaxVar,
          init \in -MaxVar..MaxVar :
         LET invar == a.invar_factor * var_invar
             t_invar == IF a.invar_present THEN invar \div sp ELSE 0
             t_init  == IF a.init_is_con THEN 0 ELSE init \div a.pre_stride
             pre_iter == m * solver_out.q + solver_out.r - t_invar - t_init
         IN /\ a.invar_present => invar % abs(sp) = 0
            /\ ~a.init_is_con => init % abs(a.pre_stride) = 0
            /\ Aligned(RuntimeAdr(a, invar, init, pre_iter, 0), a.aw)

C2_Witness ==
  /\ Solved
  /\ solver_out.kind = "Constrained"
  /\ solver_in.invar_present
  /\ ~solver_in.init_is_con
  /\ solver_in.scale < 0
  /\ solver_out.r > 0

\* Some pre_iter aligns the address in every main-loop iteration for every
\* runtime value of invar and init. Residues modulo aw cover every integer.
ExistsAligningPreIter(a) ==
  \E pre_iter \in 0..(a.aw - 1) :
    \A var_invar \in 0..1, init \in 0..1, main_iter \in 0..1 :
      Aligned(RuntimeAdr(a, a.invar_factor * var_invar, init,
                         pre_iter, main_iter), a.aw)

\* C3 (as claimed): on every input on which solve returns Empty, no integer
\* pre_iter aligns the address for all runtime values of invar and init.
C3_EmptyComplete_AsClaimed ==
  (Solved /\ solver_out.kind = "Empty") => ~ExistsAligningPreIter(solver_in)

\* C3 (amended): the same, for inputs whose |pre_stride| and |scale| are
\* powers of two; Empty then comes from EQ(2) or from EQ(4a, b, c).
C3_EmptyComplete ==
  ( /\ Solved
    /\ solver_out.kind = "Empty"
    /\ \E k \in 0..30 : abs(solver_in.pre_stride) = Pow2(k)
    /\ \E k \in 0..30 : abs(solver_in.scale) = Pow2(k) )
  => ~ExistsAligningPreIter(solver_in)

C3_Witness ==
  /\ Solved
  /\ solver_out.kind = "Empty"
  /\ solver_out.reason = ReasonEQ4
  /\ solver_in.invar_present
  /\ ~solver_in.init_is_con

\* C4: if solve returns Trivial, every pre_iter, every runtime invar and init
\* and every main_iter >= 0 give an aw-aligned address.
C4_TrivialSound ==
  (Solved /\ solver_out.kind = "Trivial") =>
    \A pre_iter \in -MaxM..MaxM, var_invar \in -MaxVar..MaxVar,
       init \in -MaxVar..MaxVar, main_iter \in 0..MaxM :
      Aligned(RuntimeAdr(solver_in, solver_in.invar_factor * var_invar, init,
                         pre_iter, main_iter), solver_in.aw)

C4_Witness ==
  /\ Solved
  /\ solver_out.kind = "Trivial"
  /\ solver_in.invar_present
  /\ ~solver_in.init_is_con
  /\ solver_in.offset # 0

\* C5: a Constrained result has q = aw / |scale*pre_stride|, a power of two
\* >= 2, and r = (-C_const / (scale*pre_stride)) mod q with 0 <= r < q, the
\* division being exact; scale=4, pre_stride=1, main_stride=8, aw=32, constant
\* init 0, no invariant and an offset multiple of 32 give q=8, r=0.
C5_ConstrainedShape ==
  /\ (Solved /\ solver_out.kind = "Constrained") =>
       LET a  == solver_in
           sp == a.scale * a.pre_stride
           cc == a.offset + (IF a.init_is_con THEN a.init_con * a.scale ELSE 0)
           q  == solver_out.q
       IN /\ q * abs(sp) = a.aw
          /\ q >= 2
          /\ \E k \in 1..30 : q = Pow2(k)
          /\ (-cc) % abs(sp) = 0
          /\ solver_out.r >= 0 /\ solver_out.r < q
          /\ solver_out.r = ((-cc) \div sp) % q
  /\ ( /\ Solved
       /\ solver_in.scale = 4 /\ solver_in.pre_stride = 1
       /\ solver_in.main_stride = 8 /\ solver_in.aw = 32
       /\ solver_in.init_is_con /\ solver_in.init_con = 0
       /\ ~solver_in.invar_present /\ solver_in.offset % 32 = 0 )
     => ( /\ solver_out.kind = "Constrained"
          /\ solver_out.q = 8 /\ solver_out.r = 0 )

C5_Witness ==
  /\ Solved
  /\ solver_out.kind = "Constrained"
  /\ solver_in.scale * solver_in.pre_stride < 0
  /\ solver_in.offset > 0
  /\ solver_out.r > 0

\* The failure the solver is expected to report, tested in the order of the
\* claim, computed with unbounded integers.
SubEquationEmpty(C, sp, aw) ==
  IF abs(sp) >= aw THEN C % aw # 0 ELSE C % abs(sp) # 0

ExpectedFailure(a) ==
  LET sp == a.scale * a.pre_stride
      cc == a.offset + (IF a.init_is_con THEN a.init_con * a.scale ELSE 0)
      ci == IF a.invar_present THEN abs(a.invar_factor) ELSE 0
      cn == IF a.init_is_con THEN 0 ELSE a.scale
  IN IF ~(\E k \in 0..30 : abs(a.pre_stride) = Pow2(k)) THEN "stride"
     ELSE IF a.scale = 0 \/ ~(\E k \in 0..30 : abs(a.scale) = Pow2(k))
       THEN "scale"
     ELSE IF (a.scale * a.main_stride) % a.aw # 0 THEN "main"
     ELSE IF \E C \in {cc, ci, cn} : SubEquationEmpty(C, sp, a.aw)
       THEN "sub-equation"
     ELSE "none"

\* C6: solve returns Empty exactly when the stride is no power of two, the
\* scale is 0 or no power of two, C_main is no multiple of aw, or one of the
\* three sub-equations is EMPTY, tested in this order, each with its own
\* reason; otherwise the result is Trivial or Constrained.
C6_SolverFailures ==
  Solved =>
    LET f == ExpectedFailure(solver_in)
    IN /\ (solver_out.kind = "Empty") <=> (f # "none")
       /\ solver_out.kind \in {"Empty", "Trivial", "Constrained"}
       /\ f = "stride" =>
            solver_out.reason = "non power-of-2 stride not supported"
       /\ f = "scale" =>
            solver_out.reason = "non power-of-2 scale not supported"
       /\ f = "main" =>
            solver_out.reason =
              "EQ(2) not satisfied (cannot align across main-loop iterations)"
       /\ f = "sub-equation" =>
            solver_out.reason =
              "EQ(4a, b, c) not all non-empty: cannot align const, invar and init terms individually"

C6_Witness ==
  /\ Solved
  /\ solver_out.kind = "Empty"
  /\ solver_out.reason = ReasonStride
  /\ solver_in.scale = 3


-----------------------------------------------------------------------------
(* The loop body the dependence graph is built for. A memory node carries  *)
(* its memory input mem (in(MemNode::Memory)), its address adr, a store    *)
(* its value val, and memory_size() as size. The memory phi of a slice     *)
(* stands for itself: its backedge input is the tail of the slice.         *)

MemPhi(s) == [op |-> "Phi_mem", slice |-> s]
LoadNode(mem, adr, size) ==
  [op |-> "Load", mem |-> mem, adr |-> adr, size |-> size]
StoreNode(mem, adr, val, size) ==
  [op |-> "Store", mem |-> mem, adr |-> adr, val |-> val, size |-> size]

is_Load(n)       == n.op = "Load"
is_Store(n)      == n.op = "Store"
is_Mem(n)        == is_Load(n) \/ is_Store(n)
is_Phi(n)        == n.op \in {"Phi_iv", "Phi_mem", "Phi"}
is_memory_phi(n) == n.op = "Phi_mem"

\* The counted loop around the body: the head cl, the increment of iv, the
\* exit test and its projection back to the head.
incr           == Binary("AddI", iv, ConI(1))
limit          == Parm("limit", "T_INT", "above")
CmpNode        == [op |-> "CmpI", in1 |-> incr, in2 |-> limit]
BoolNode       == [op |-> "Bool", in1 |-> CmpNode]
CountedLoopEnd == [op |-> "CountedLoopEnd", in1 |-> BoolNode]
IfTrue         == [op |-> "IfTrue"]
cl == [op |-> "CountedLoop", in1 |-> Parm("entry", "T_INT", "above"),
       in2 |-> IfTrue]
LoopControl == {cl, CmpNode, BoolNode, CountedLoopEnd, IfTrue}

\* The inputs in(1) .. in(req()-1) of a node; tails[s] is the backedge input
\* of the memory phi of slice s.
Inputs(n, tails) ==
  IF n.op \in UnaryOps \cup {"Bool", "CountedLoopEnd"} THEN <<n.in1>>
  ELSE IF n.op \in BinaryOps \cup {"CmpI", "CountedLoop"}
    THEN <<n.in1, n.in2>>
  ELSE IF n.op = "AddP" THEN <<n.base, n.adr, n.off>>
  ELSE IF n.op = "Phi_iv" THEN <<Parm("init", "T_INT", "above"), incr>>
  ELSE IF n.op = "Phi_mem"
    THEN <<Parm("mem", "T_ADDRESS", "above"), tails[n.slice]>>
  ELSE IF n.op = "Load" THEN <<n.mem, n.adr>>
  ELSE IF n.op = "Store" THEN <<n.mem, n.adr, n.val>>
  ELSE <<>>

Range(f) == {f[i] : i \in DOMAIN f}

\* The nodes of the loop an expression reaches through its inputs, the walk
\* ending at phis and at nodes outside the loop.
RECURSIVE LoopNodes(_)
LoopNodes(n) ==
  IF n \in LoopControl THEN {n}
  ELSE IF ~is_loop_member(n) THEN {}
  ELSE IF is_Phi(n) THEN {n}
  ELSE {n} \cup UNION {LoopNodes(x) : x \in Range(Inputs(n, <<>>))}

\* The longest path of inputs from a phi to n inside the loop.
RECURSIVE Height(_)
Height(n) ==
  IF is_Phi(n) \/ ~is_loop_member(n) THEN 0
  ELSE LET hs == {Height(x) : x \in Range(Inputs(n, <<>>))}
       IN 1 + (CHOOSE h \in hs \cup {0} : \A g \in hs \cup {0} : g <= h)

\* The nodes of S in some order.
RECURSIVE SeqOf(_)
SeqOf(S) ==
  IF S = {} THEN <<>>
  ELSE LET n == CHOOSE x \in S : TRUE IN <<n>> \o SeqOf(S \ {n})

\* The nodes of S, all of height k or more, by height: every node follows
\* its inputs.
RECURSIVE ByHeight(_, _)
ByHeight(S, k) ==
  IF S = {} THEN <<>>
  ELSE LET level == {n \in S : Height(n) = k}
       IN SeqOf(level) \o ByHeight(S \ level, k + 1)

\* body(): the head first, then the phis, the data and memory nodes after
\* their inputs, the exit test last.
BodyOf(tails, loads) ==
  LET roots == Range(tails) \cup Range(loads) \cup {incr}
      nodes == UNION {LoopNodes(r) : r \in roots}
      phis  == {n \in nodes : is_Phi(n)} \cup {iv}
  IN <<cl>> \o SeqOf(phis) \o ByHeight(nodes \ phis, 1)
       \o <<CmpNode, BoolNode, CountedLoopEnd, IfTrue>>

in_body(n, in) == n \in Range(in.body)


-----------------------------------------------------------------------------
(* VLoopMemorySlices                                                       *)

\* The loads among the outputs of n, in the order of n's out array.
LoadsOf(n, in) == SelectSeq(in.outs, LAMBDA l : l.mem = n)

\* VLoopMemorySlices::get_slice: from the tail up to the head, the loads
\* below a node before the node itself.
RECURSIVE get_slice(_, _, _)
get_slice(head, n, in) ==
  LET loads == SelectSeq(LoadsOf(n, in), LAMBDA out : in_body(out, in))
  IN IF n = head THEN loads
     ELSE loads \o <<n>> \o get_slice(head, n.mem, in)

-----------------------------------------------------------------------------
(* VPointer comparison.                                                    *)

Less    == "LESS"
Greater == "GREATER"
Equal   == "EQUAL"
NotComparable == "UNKNOWN"

memory_size(p) == p.mem.size

\* Mutant: the scales are not compared.
comparable_NoScale(p, q) ==
  /\ valid(p) /\ valid(q)
  /\ p.base = q.base /\ p.adr = q.adr
  /\ p.invar = q.invar

\* Two VPointers are comparable only when both are valid and their base,
\* adr, invar and scale agree.
comparable(p, q) ==
  /\ valid(p) /\ valid(q)
  /\ p.base = q.base /\ p.adr = q.adr
  /\ p.invar = q.invar /\ p.scale = q.scale

\* p.cmp(q): comparable pointers are ordered by offset, and are not equal
\* only when the offsets differ by at least the size of the access.
cmp(p, q) ==
  IF comparable(p, q)
    THEN LET overlap == /\ q.offset < p.offset + memory_size(p)
                        /\ p.offset < q.offset + memory_size(q)
         IN IF overlap THEN Equal
            ELSE IF p.offset < q.offset THEN Less ELSE Greater
    ELSE NotComparable

\* Mutant: a pointer below the other one is not told apart from it.
not_equal_OnlyGreater(c) == c = Greater

not_equal(c) == c \in {Less, Greater, "NOT_EQUAL"}

-----------------------------------------------------------------------------
(* VLoopDependenceGraph. An edge is a pair <<pred, succ>> of dependence    *)
(* nodes; a dependence node is the memory node it was made for, or a       *)
(* sentinel (root, sink, the sink of a slice) made for no node. edges is   *)
(* the list of edges in the order make_edge created them.                  *)

root          == [op |-> "root"]
sink          == [op |-> "sink"]
slice_sink(i) == [op |-> "slice_sink", slice |-> i]

\* VLoopDependenceGraph::make_edge
make_edge(edges, dpred, dsucc) == Append(edges, <<dpred, dsucc>>)

Reverse(q) == [i \in 1..Len(q) |-> q[Len(q) + 1 - i]]

\* The list from in_head along next_in: the newest edge first.
in_edges(edges, d) == Reverse(SelectSeq(edges, LAMBDA e : e[2] = d))

in_cnt(edges, d) == Len(in_edges(edges, d))

\* The vloop of build(): VPointer p(mem, _vloop), not analyze-only.
BuildEnv ==
  [analyze_only |-> FALSE, is_main_loop |-> TRUE,
   misaligned_vectors_ok |-> TRUE]

\* The condition of build() for an edge from s1 to s2.
possibly_same_address_OnlyEqual(s1, s2) ==
  cmp(VPointer(s1, BuildEnv), VPointer(s2, BuildEnv)) = Equal

possibly_same_address(s1, s2) ==
  ~not_equal(cmp(VPointer(s1, BuildEnv), VPointer(s2, BuildEnv)))

\* if (s1->is_Load() && s2->is_Load()) continue;
skip_pair(s1, s2) == is_Load(s1) /\ is_Load(s2)

\* The loop over k = j-1 .. 0 of build(); st holds the edges and
\* sink_dependent. Index j of the code is position j+1 of slice_nodes.
RECURSIVE build_pairs(_, _, _, _)
build_pairs(slice_nodes, j, k, st) ==
  IF k < 1 THEN st
  ELSE
    LET s1 == slice_nodes[j]
        s2 == slice_nodes[k]
    IN IF skip_pair(s1, s2) THEN build_pairs(slice_nodes, j, k - 1, st)
       ELSE IF possibly_same_address(s1, s2)
         THEN build_pairs(slice_nodes, j, k - 1,
                [edges |-> make_edge(st.edges, s1, s2),
                 sink_dependent |-> FALSE])
       ELSE build_pairs(slice_nodes, j, k - 1, st)

\* The loop over j with an edge from the slice head to every node.
RECURSIVE build_slice_AlwaysFromHead(_, _, _, _, _)
build_slice_AlwaysFromHead(slice_nodes, j, edges0, head, i) ==
  IF j < 1 THEN edges0
  ELSE
    LET s1 == slice_nodes[j]
        to_sink(st) ==
          IF st.sink_dependent
            THEN make_edge(st.edges, s1, slice_sink(i))
            ELSE st.edges
        pairs(edges1) ==
          to_sink(build_pairs(slice_nodes, j, j - 1,
                              [edges |-> edges1, sink_dependent |-> TRUE]))
    IN build_slice_AlwaysFromHead(slice_nodes, j - 1,
                                  pairs(make_edge(edges0, head, s1)), head, i)

\* The loop over j = length-1 .. 0 of build() for slice i.
RECURSIVE build_slice(_, _, _, _, _)
build_slice(slice_nodes, j, edges0, head, i) ==
  IF j < 1 THEN edges0
  ELSE
    LET s1 == slice_nodes[j]
        \* if (sink_dependent) make_edge(get_node(s1), slice_sink)
        to_sink(st) ==
          IF st.sink_dependent
            THEN make_edge(st.edges, s1, slice_sink(i))
            ELSE st.edges
        pairs(edges1) ==
          to_sink(build_pairs(slice_nodes, j, j - 1,
                              [edges |-> edges1, sink_dependent |-> TRUE]))
        \* if (get_node(s1)->in_cnt() == 0) make_edge(slice_head, s1)
        from_head == IF in_cnt(edges0, s1) = 0
                       THEN make_edge(edges0, head, s1) ELSE edges0
    IN build_slice(slice_nodes, j - 1, pairs(from_head), head, i)

\* The loop of build() over the memory slices.
RECURSIVE build_edges(_, _, _)
build_edges(in, i, edges0) ==
  IF i > Len(in.heads) THEN edges0
  ELSE build_edges(in, i + 1,
         build_slice(get_slice(in.heads[i], in.tails[i], in),
                     Len(get_slice(in.heads[i], in.tails[i], in)),
                     \* make_edge(root, slice_head);
                     \* make_edge(slice_sink, sink)
                     make_edge(make_edge(edges0, root, in.heads[i]),
                               slice_sink(i), sink),
                     in.heads[i], i))

\* The predecessors PredsIterator(n, dg) enumerates: for a load or store the
\* preds of its dependence node from in_head on, then the inputs from
\* MemNode::Address on; for any other node the inputs from in(1) on.
PredsIterator(n, in, edges) ==
  IF is_Store(n) \/ is_Load(n)
    THEN LET dep == in_edges(edges, n)
             ins == Inputs(n, in.tails)
         IN [i \in 1..Len(dep) |-> dep[i][1]] \o SubSeq(ins, 2, Len(ins))
    ELSE Inputs(n, in.tails)

Max(S) == CHOOSE m \in S : \A x \in S : x <= m

\* d_in of compute_max_depth and of the mutant that looks at the data
\* inputs only.
d_in_DataInputsOnly(n, in, edges, depth) ==
  LET ins == IF is_Mem(n)
               THEN SubSeq(Inputs(n, in.tails), 2, Len(Inputs(n, in.tails)))
               ELSE Inputs(n, in.tails)
  IN Max({0} \cup {depth[pred] : pred \in
                     {x \in Range(ins) : in_body(x, in)}})

d_in(n, in, edges, depth) ==
  Max({0} \cup {depth[pred] : pred \in
                  {x \in Range(PredsIterator(n, in, edges)) :
                     in_body(x, in)}})

\* One pass of the loop of compute_max_depth over body[i..]; st holds the
\* depths and again.
RECURSIVE depth_pass(_, _, _, _)
depth_pass(i, st, in, edges) ==
  IF i > Len(in.body) THEN st
  ELSE
    LET n == in.body[i]
    IN IF is_Phi(n) THEN depth_pass(i + 1, st, in, edges)
       ELSE
         LET d_orig == st.depth[n]
             d      == d_in(n, in, edges, st.depth)
         IN IF d + 1 # d_orig
              THEN depth_pass(i + 1,
                     [depth |-> [st.depth EXCEPT ![n] = d + 1],
                      again |-> TRUE], in, edges)
              ELSE depth_pass(i + 1, st, in, edges)

RECURSIVE depth_passes_CountsVisits(_, _, _, _)
\* The do-while loop counting the visits of nodes instead of the passes.
depth_passes_CountsVisits(depth, ct, in, edges) ==
  LET st == depth_pass(1, [depth |-> depth, again |-> FALSE], in, edges)
  IN IF st.again
       THEN depth_passes_CountsVisits(st.depth, ct + Len(in.body), in, edges)
     ELSE [depth |-> st.depth, ct |-> ct + Len(in.body)]

\* The do-while loop of compute_max_depth; ct counts the passes.
RECURSIVE depth_passes(_, _, _, _)
depth_passes(depth, ct, in, edges) ==
  LET st == depth_pass(1, [depth |-> depth, again |-> FALSE], in, edges)
  IN IF st.again THEN depth_passes(st.depth, ct + 1, in, edges)
     ELSE [depth |-> st.depth, ct |-> ct + 1]

\* VLoopDependenceGraph::compute_max_depth
compute_max_depth(in, edges) ==
  depth_passes([n \in Range(in.body) |-> 0], 0, in, edges)

\* Unique_Node_List::push of every node of ps.
RECURSIVE push_all(_, _)
push_all(worklist, ps) ==
  IF ps = <<>> THEN worklist
  ELSE push_all(IF Head(ps) \in Range(worklist) THEN worklist
                ELSE Append(worklist, Head(ps)), Tail(ps))

\* The predecessors the traversal of independent() follows from n.
traversed_AboveMinDepth(n, min_d, in, g) ==
  SelectSeq(PredsIterator(n, in, g.edges),
            LAMBDA pred : in_body(pred, in) /\ g.depth[pred] > min_d)

traversed(n, min_d, in, g) ==
  SelectSeq(PredsIterator(n, in, g.edges),
            LAMBDA pred : in_body(pred, in) /\ g.depth[pred] >= min_d)

\* The loop of independent() over the worklist from position i.
RECURSIVE independent_from(_, _, _, _, _, _)
independent_from(worklist, i, shallow, min_d, in, g) ==
  IF i > Len(worklist) THEN TRUE
  ELSE
    LET ps == traversed(worklist[i], min_d, in, g)
    IN IF shallow \in Range(ps) THEN FALSE
       ELSE independent_from(push_all(worklist, ps), i + 1, shallow, min_d,
                             in, g)

\* independent() with the traversal started at the shallower node.
independent_FromShallow(s1, s2, in, g) ==
  LET d1 == g.depth[s1]
      d2 == g.depth[s2]
  IN IF d1 = d2 THEN s1 # s2
     ELSE
       LET deep    == IF d1 > d2 THEN s1 ELSE s2
           shallow == IF d1 > d2 THEN s2 ELSE s1
           min_d   == IF d1 < d2 THEN d1 ELSE d2
       IN independent_from(<<shallow>>, 1, deep, min_d, in, g)

\* VLoopDependenceGraph::independent
independent(s1, s2, in, g) ==
  LET d1 == g.depth[s1]
      d2 == g.depth[s2]
  IN IF d1 = d2 THEN s1 # s2
     ELSE
       LET deep    == IF d1 > d2 THEN s1 ELSE s2
           shallow == IF d1 > d2 THEN s2 ELSE s1
           min_d   == IF d1 < d2 THEN d1 ELSE d2
       IN independent_from(<<deep>>, 1, shallow, min_d, in, g)


-----------------------------------------------------------------------------
(* The loops the dependence graph specification builds graphs for.         *)

MaxMemOps == 3   \* loads and stores of the first memory slice

Index(e) == Unary("ConvI2L", e)

\* The accesses of the first slice: a[i], a[i+1], two bytes at a[i], b[i],
\* a[v] with v varying in the loop, a[2-i] and a[3-(i+1)].
Accesses ==
  {[adr |-> AddP(base_a, base_a, Index(iv)), size |-> 1],
   [adr |-> AddP(base_a, base_a, Index(incr)), size |-> 1],
   [adr |-> AddP(base_a, base_a, Index(iv)), size |-> 2],
   [adr |-> AddP(base_b, base_b, Index(iv)), size |-> 1],
   [adr |-> AddP(base_a, base_a, Index(v_loop)), size |-> 1],
   [adr |-> AddP(base_a, base_a, Index(Binary("SubI", ConI(2), iv))),
    size |-> 1],
   [adr |-> AddP(base_a, base_a, Index(Binary("SubI", ConI(3), incr))),
    size |-> 1]}

LoadsOn(m) == {LoadNode(m, a.adr, a.size) : a \in Accesses}

\* The values a store can store: a loop invariant, or a value computed
\* from a load above it.
Vals(loads) ==
  {Parm("k", "T_INT", "above")}
  \cup {Binary("AddI", l, ConI(1)) : l \in Range(loads)}

\* The lists of at most k distinct elements of S.
RECURSIVE DistinctSeqs(_, _)
DistinctSeqs(S, k) ==
  IF k = 0 THEN {<<>>}
  ELSE LET shorter == DistinctSeqs(S, k - 1)
       IN shorter \cup
            UNION {{Append(q, x) : x \in S \ Range(q)} : q \in shorter}

\* The slices that continue the memory state m with at most budget more
\* memory nodes: loads on m, then a store on m and what follows it.
RECURSIVE SlicesFrom(_, _, _)
SlicesFrom(m, outs, budget) ==
  UNION {
    LET outs2 == outs \o ls
        left  == budget - Len(ls)
    IN (IF is_Store(m) THEN {[tail |-> m, outs |-> outs2]} ELSE {})
       \cup (IF left = 0 THEN {}
             ELSE UNION {SlicesFrom(StoreNode(m, a.adr, v, a.size),
                                    outs2, left - 1) :
                           a \in Accesses, v \in Vals(outs2)})
    : ls \in DistinctSeqs(LoadsOn(m), budget)}

\* A second slice: one store to another array, of an invariant or of a
\* value loaded in the first slice.
SecondTails(outs) ==
  {StoreNode(MemPhi(2), AddP(raw_adr, raw_adr, Index(iv)), v, 1) :
     v \in Vals(IF outs = <<>> THEN <<>> ELSE <<outs[1]>>)}

DGInput(heads, tails, outs) ==
  [heads |-> heads, tails |-> tails, outs |-> outs,
   body |-> BodyOf(tails, outs)]

\* The loops with one memory slice, and those with a second one.
DGInputs(one_slice) ==
  IF one_slice
    THEN {DGInput(<<MemPhi(1)>>, <<s.tail>>, s.outs) :
            s \in SlicesFrom(MemPhi(1), <<>>, MaxMemOps)}
    ELSE UNION {{DGInput(<<MemPhi(1), MemPhi(2)>>, <<s.tail, t>>, s.outs) :
                   t \in SecondTails(s.outs)} :
                s \in SlicesFrom(MemPhi(1), <<>>, MaxMemOps - 1)}

\* The element e of an int array a: the address a + (e << 2), four bytes.
IntElement(e) ==
  [adr |-> AddP(base_a, base_a, Binary("LShiftL", Index(e), ConI(2))),
   size |-> 4]

\* The loop a[i + k] = a[i] on an int array: one slice with the load of
\* a[i] and the store of the loaded value to a[i + k].
ShiftedCopy(k) ==
  LET load == LoadNode(MemPhi(1), IntElement(iv).adr, IntElement(iv).size)
      to   == IntElement(Binary("AddI", iv, ConI(k)))
  IN DGInput(<<MemPhi(1)>>,
             <<StoreNode(MemPhi(1), to.adr, load, to.size)>>, <<load>>)

DGInit ==
  /\ comp = "depgraph"
  /\ \/ \E one_slice \in BOOLEAN : dg_in \in DGInputs(one_slice)
     \/ \E k \in {0, 7} : dg_in = ShiftedCopy(k)
  /\ dg = Idle
  /\ dg_query = Idle
  /\ solver_in = Idle
  /\ solver_out = Idle
  /\ vp_in = Idle
  /\ vp_out = Idle
  /\ vloop = Idle
  /\ analyzer = Idle

\* VLoopDependenceGraph::build, compute_max_depth included.
Build ==
  /\ comp = "depgraph"
  /\ dg = Idle
  /\ LET with_depth(edges, d) ==
           dg' = [kind |-> "Built", edges |-> edges, depth |-> d.depth,
                  ct |-> d.ct]
         built(edges) == with_depth(edges, compute_max_depth(dg_in, edges))
     IN built(build_edges(dg_in, 1, <<>>))
  /\ UNCHANGED <<comp, dg_in, dg_query, solver_in, solver_out, vp_in, vp_out, vloop,
               analyzer>>

\* The memory nodes of the body.
MemNodes(in) == {n \in Range(in.body) : is_Mem(n)}

\* A query independent(s1, s2) for two memory nodes of the body.
Independent ==
  /\ comp = "depgraph"
  /\ dg # Idle
  /\ dg_query = Idle
  /\ \E s1, s2 \in MemNodes(dg_in) :
       dg_query' = [s1 |-> s1, s2 |-> s2,
                    independent |-> independent(s1, s2, dg_in, dg)]
  /\ UNCHANGED <<comp, dg_in, dg, solver_in, solver_out, vp_in, vp_out, vloop,
               analyzer>>

DGNext == Build \/ Independent

SpecDepGraph == DGInit /\ [][DGNext]_vars


-----------------------------------------------------------------------------
(* Dependence graph: the claims.                                           *)

Built == comp = "depgraph" /\ dg # Idle

HasEdge(a, b) == \E e \in DOMAIN dg.edges : dg.edges[e] = <<a, b>>

\* slice_nodes of slice i: position j is before position k in
\* predecessor-first order iff j > k.
SliceNodes(i) == get_slice(dg_in.heads[i], dg_in.tails[i], dg_in)

VP(s) == VPointer(s, BuildEnv)

ProvablyNotEqual(s1, s2) == not_equal(cmp(VP(s1), VP(s2)))

\* The bytes the accesses s1 and s2 touch overlap for some value of iv.
CanOverlap(s1, s2) ==
  \E ivv \in 0..MaxIv, rho \in ParmValues :
    LET a1 == Eval(s1.adr, ivv, rho)
        a2 == Eval(s2.adr, ivv, rho)
    IN a1 < a2 + s2.size /\ a2 < a1 + s1.size

\* C7: cmp is in the provably-not-equal class only for two valid VPointers
\* with the same base, adr, invar and scale whose offsets differ by at least
\* the access size, and build leaves out no edge between two accesses of a
\* slice (not both loads) whose byte ranges can overlap.
C7_ComparisonSafety ==
  Built =>
    \A i \in DOMAIN dg_in.heads :
      LET sl == SliceNodes(i)
      IN \A j, k \in DOMAIN sl :
           (j > k /\ ~(is_Load(sl[j]) /\ is_Load(sl[k]))) =>
             LET p1 == VP(sl[j])
                 p2 == VP(sl[k])
             IN /\ not_equal(cmp(p1, p2)) =>
                     /\ valid(p1) /\ valid(p2)
                     /\ p1.base = p2.base /\ p1.adr = p2.adr
                     /\ p1.invar = p2.invar /\ p1.scale = p2.scale
                     /\ \/ p2.offset - p1.offset >= memory_size(p1)
                        \/ p1.offset - p2.offset >= memory_size(p2)
                /\ CanOverlap(sl[j], sl[k]) => HasEdge(sl[j], sl[k])

\* The place of a dependence node between root and sink.
Rank(d) ==
  IF d = root THEN 0
  ELSE IF is_memory_phi(d) THEN 1
  ELSE IF d.op = "slice_sink" THEN MaxMemOps + 3
  ELSE IF d = sink THEN MaxMemOps + 4
  ELSE LET sl == SliceNodes(CHOOSE i \in DOMAIN dg_in.heads :
                              d \in Range(SliceNodes(i)))
       IN 2 + Len(sl) - (CHOOSE j \in DOMAIN sl : sl[j] = d)

\* C8: after build, for s1 before s2 in a slice there is an edge s1 -> s2
\* iff they are not both loads and their VPointers do not compare as
\* provably not equal; no edge points from a later to an earlier node, and
\* every edge of the graph leads from root towards sink.
C8_DependenceEdges ==
  Built =>
    /\ \A i \in DOMAIN dg_in.heads :
         LET sl == SliceNodes(i)
         IN \A j, k \in DOMAIN sl :
              IF j > k
                THEN HasEdge(sl[j], sl[k]) <=>
                       /\ ~(is_Load(sl[j]) /\ is_Load(sl[k]))
                       /\ ~ProvablyNotEqual(sl[j], sl[k])
                ELSE ~HasEdge(sl[j], sl[k])
    /\ \A e \in DOMAIN dg.edges :
         Rank(dg.edges[e][1]) < Rank(dg.edges[e][2])

C8_Witness ==
  /\ Built
  /\ \E i \in DOMAIN dg_in.heads :
       LET sl == SliceNodes(i)
       IN \E j, k, l \in DOMAIN sl :
            /\ j > k /\ k > l
            /\ is_Store(sl[j]) /\ is_Load(sl[k]) /\ is_Store(sl[l])
            /\ HasEdge(sl[j], sl[l]) /\ ~valid(VP(sl[l]))
            /\ ~HasEdge(sl[j], sl[k]) /\ ProvablyNotEqual(sl[j], sl[k])
            /\ HasEdge(sl[k], sl[l])

SameSlice(s1, s2) ==
  \E i \in DOMAIN dg_in.heads :
    s1 \in Range(SliceNodes(i)) /\ s2 \in Range(SliceNodes(i))

\* C9: a query independent(s1, s2) for two distinct memory nodes of one
\* slice answers true only if both are loads or their VPointers compare as
\* provably not equal.
C9_DependenceSafety ==
  (Built /\ dg_query # Idle) =>
    LET s1 == dg_query.s1
        s2 == dg_query.s2
    IN (s1 # s2 /\ SameSlice(s1, s2) /\ dg_query.independent) =>
         \/ is_Load(s1) /\ is_Load(s2)
         \/ ProvablyNotEqual(s1, s2) /\ ProvablyNotEqual(s2, s1)

C9_Witness ==
  /\ Built /\ dg_query # Idle
  /\ dg_query.s1 # dg_query.s2
  /\ SameSlice(dg_query.s1, dg_query.s2)
  /\ is_Store(dg_query.s1) /\ is_Load(dg_query.s2)
  /\ ~ProvablyNotEqual(dg_query.s1, dg_query.s2)
  /\ ~dg_query.independent
  /\ dg.depth[dg_query.s1] # dg.depth[dg_query.s2]

InBodyPreds(n) ==
  {pred \in Range(PredsIterator(n, dg_in, dg.edges)) : in_body(pred, dg_in)}

\* C10: when compute_max_depth has returned, a phi of the body has depth 0
\* and any other body node has depth 1 + the greatest depth of its in-body
\* predecessors (0 if it has none), so its depth exceeds that of each.
C10_DepthFixpoint ==
  Built =>
    \A n \in Range(dg_in.body) :
      IF is_Phi(n) THEN dg.depth[n] = 0
      ELSE /\ dg.depth[n] =
                1 + Max({0} \cup {dg.depth[pred] : pred \in InBodyPreds(n)})
           /\ \A pred \in InBodyPreds(n) : dg.depth[pred] < dg.depth[n]

C10_Witness ==
  /\ Built
  /\ dg.ct > 2
  /\ \E n \in MemNodes(dg_in) :
       \E pred \in InBodyPreds(n) :
         /\ is_Mem(pred)
         /\ HasEdge(pred, n)
         /\ dg.depth[n] = 1 + dg.depth[pred]
         /\ \E other \in InBodyPreds(n) :
              ~is_Mem(other) /\ dg.depth[other] < dg.depth[pred]


-----------------------------------------------------------------------------
(* Loops as the analyzer sees them. A loop g lists its nodes: nodes[id] is *)
(* [op, in, in_body], in the inputs in(0) .. in(req()-1) as ids with 0 for *)
(* a null input, in_body what VLoop::in_body answers for the node. lpt_body *)
(* is lpt->_body, cl the id of the loop head, and outs_rev tells in which  *)
(* order the out array of a node lists its users.                          *)

in_body_of(g, n) == n # 0 /\ g.nodes[n].in_body

is_CFG(n)  == n.op \in {"CountedLoop", "CountedLoopEnd", "IfTrue"}
is_Proj(n) == n.op \in {"Proj", "IfTrue"}

\* The out array of n from user u on: one entry for every input of a user
\* that is n.
RECURSIVE outs_from(_, _, _)
outs_from(g, n, u) ==
  IF u > Len(g.nodes) THEN <<>>
  ELSE SelectSeq([k \in 1..Len(g.nodes[u].in) |->
                    IF g.nodes[u].in[k] = n THEN u ELSE 0],
                 LAMBDA x : x # 0)
       \o outs_from(g, n, u + 1)

fast_outs(g, n) ==
  IF g.outs_rev THEN Reverse(outs_from(g, n, 1)) ELSE outs_from(g, n, 1)

-----------------------------------------------------------------------------
(* VLoopBody::construct                                                    *)

\* The condition of the bailout, and the mutant that rejects every Proj.
node_not_allowed_AnyProj(n) ==
  n.op \in {"LoadStore", "MergeMem"} \/ is_Proj(n)

\* n->is_LoadStore() || n->is_MergeMem() || (n->is_Proj() && !is_CFG())
node_not_allowed(n) ==
  \/ n.op \in {"LoadStore", "MergeMem"}
  \/ is_Proj(n) /\ ~is_CFG(n)

\* The first pass over lpt->_body from position i: st holds the temporary
\* map body_idx, body_count and whether the pass has bailed out.
RECURSIVE first_pass(_, _, _)
first_pass(g, i, st) ==
  IF i > Len(g.lpt_body) THEN st
  ELSE IF ~in_body_of(g, g.lpt_body[i]) THEN first_pass(g, i + 1, st)
  ELSE IF node_not_allowed(g.nodes[g.lpt_body[i]])
    THEN [body_idx   |-> [st.body_idx EXCEPT ![g.lpt_body[i]] = i - 1],
          body_count |-> st.body_count + 1,
          failed     |-> TRUE]
  ELSE first_pass(g, i + 1,
         [body_idx   |-> [st.body_idx EXCEPT ![g.lpt_body[i]] = i - 1],
          body_count |-> st.body_count + 1,
          failed     |-> FALSE])

\* GrowableArray::at_put_grow on _body, whose slots are 0 .. length-1.
at_put_grow(body, i, n) ==
  [j \in (DOMAIN body) \cup (0..i) |->
     IF j = i THEN n ELSE IF j \in DOMAIN body THEN body[j] ELSE 0]

\* The depth first walk over out edges; st holds the stack, visited,
\* post_visited, _body and rpo_idx.
RECURSIVE rpo_walk(_, _, _)
rpo_walk(g, body_idx, st) ==
  IF st.stack = <<>> THEN st
  ELSE
    LET top(n) ==
          LET pop == SubSeq(st.stack, 1, Len(st.stack) - 1)
              uses(pushed) ==
                IF pushed # <<>>
                  THEN [st EXCEPT !.stack = @ \o pushed]
                  ELSE [st EXCEPT !.stack = pop,
                                  !.body = at_put_grow(@, st.rpo_idx, n),
                                  !.rpo_idx = @ - 1,
                                  !.post_visited = @ \cup {body_idx[n]}]
          IN IF body_idx[n] \notin st.visited
               THEN [st EXCEPT !.visited = @ \cup {body_idx[n]}]
             ELSE IF body_idx[n] \notin st.post_visited
               THEN uses(SelectSeq(fast_outs(g, n), LAMBDA use :
                           /\ in_body_of(g, use)
                           /\ body_idx[use] \notin st.visited
                           /\ (~is_Phi(g.nodes[use]) \/ n = g.cl)))
             ELSE [st EXCEPT !.stack = pop]
    IN rpo_walk(g, body_idx, top(st.stack[Len(st.stack)]))

\* The mutant that keeps the temporary map.
real_body_idx_Temporary(body_idx, body) == body_idx

\* The real map of block indices: set_body_idx(_body.at(j), j) for every j.
real_body_idx(body_idx, body) ==
  [n \in DOMAIN body_idx |->
     IF \E j \in DOMAIN body : body[j] = n
       THEN CHOOSE j \in DOMAIN body :
              body[j] = n /\ \A k \in DOMAIN body : body[k] = n => k <= j
       ELSE body_idx[n]]

\* VLoopBody::construct: the failure returned, nullptr for success.
construct(g) ==
  LET walked(body_idx, st) ==
        [result |-> "nullptr", body |-> st.body,
         body_idx |-> real_body_idx(body_idx, st.body)]
      second_pass(p) ==
        IF p.failed
          THEN [result |-> "FAILURE_NODE_NOT_ALLOWED", body |-> <<>>,
                body_idx |-> p.body_idx]
          ELSE walked(p.body_idx,
                 rpo_walk(g, p.body_idx,
                   [stack |-> <<g.cl>>, visited |-> {p.body_idx[g.cl]},
                    post_visited |-> {}, body |-> <<>>,
                    rpo_idx |-> p.body_count - 1]))
  IN second_pass(first_pass(g, 1,
       [body_idx |-> [n \in 1..Len(g.nodes) |-> -1], body_count |-> 0,
        failed |-> FALSE]))

-----------------------------------------------------------------------------
(* The loops VLoopBody::construct is run on: the counted loop skeleton     *)
(* (head 1, iv 2, increment 3, exit test 4 .. 7, node 8 for everything     *)
(* outside the loop) and up to MaxExtra more nodes.                        *)

MaxExtra == 2

\* exit_in_body: whether in_body holds for the loop end and its projection.
Skeleton(exit_in_body) ==
  <<[op |-> "CountedLoop",    in |-> <<1, 8, 7>>, in_body |-> TRUE],
    [op |-> "Phi_iv",         in |-> <<1, 8, 3>>, in_body |-> TRUE],
    [op |-> "AddI",           in |-> <<0, 2, 8>>, in_body |-> TRUE],
    [op |-> "CmpI",           in |-> <<0, 3, 8>>, in_body |-> TRUE],
    [op |-> "Bool",           in |-> <<0, 4>>,    in_body |-> TRUE],
    [op |-> "CountedLoopEnd", in |-> <<1, 5>>,    in_body |-> exit_in_body],
    [op |-> "IfTrue",         in |-> <<6>>,       in_body |-> exit_in_body],
    [op |-> "Parm",           in |-> <<>>,        in_body |-> FALSE]>>

FirstExtra == Len(Skeleton(TRUE)) + 1

\* The nodes that can follow the list nodes: a data node on nodes before
\* it, a data projection, or a phi at the head whose backedge input is the
\* increment or one of the extra nodes.
ExtraNodes(nodes) ==
  LET id    == Len(nodes) + 1
      above == {2, 3} \cup (FirstExtra..Len(nodes))
  IN {[op |-> o, in |-> <<0, a, b>>, in_body |-> ib] :
        o \in {"AddI", "LoadStore", "MergeMem"}, a \in above,
        b \in above \cup {8}, ib \in BOOLEAN}
     \cup {[op |-> "Proj", in |-> <<a>>, in_body |-> ib] :
             a \in above, ib \in BOOLEAN}
     \cup {[op |-> "Phi", in |-> <<1, 8, x>>, in_body |-> TRUE] :
             x \in ({3} \cup (FirstExtra..(FirstExtra + MaxExtra - 1)))
                    \ {id}}

RECURSIVE NodeLists(_, _)
NodeLists(nodes, k) ==
  IF k = 0 THEN {nodes}
  ELSE {nodes} \cup UNION {NodeLists(Append(nodes, e), k - 1) :
                             e \in ExtraNodes(nodes)}

\* Every input is a node of the loop, and every node of the body that is
\* neither control nor a phi has an input in the body.
WellFormed(nodes) ==
  \A n \in 1..Len(nodes) :
    /\ \A k \in 1..Len(nodes[n].in) : nodes[n].in[k] <= Len(nodes)
    /\ (nodes[n].in_body /\ ~is_CFG(nodes[n]) /\ ~is_Phi(nodes[n]))
         => \E k \in 1..Len(nodes[n].in) :
              nodes[n].in[k] # 0 /\ nodes[nodes[n].in[k]].in_body

LoopOf(nodes, lpt_rev, outs_rev) ==
  LET members == [i \in 1..(Len(nodes) - 1) |-> IF i < 8 THEN i ELSE i + 1]
  IN [nodes |-> nodes, cl |-> 1, iv |-> 2, outs_rev |-> outs_rev,
      lpt_body |-> IF lpt_rev THEN Reverse(members) ELSE members]

BodyLoops(exit_in_body) ==
  {LoopOf(nodes, lpt_rev, outs_rev) :
     nodes \in {l \in NodeLists(Skeleton(exit_in_body), MaxExtra) :
                  WellFormed(l)},
     lpt_rev \in BOOLEAN, outs_rev \in BOOLEAN}

BodyInit ==
  /\ comp = "body"
  /\ \E exit_in_body \in BOOLEAN : vloop \in BodyLoops(exit_in_body)
  /\ analyzer = Idle
  /\ solver_in = Idle
  /\ solver_out = Idle
  /\ vp_in = Idle
  /\ vp_out = Idle
  /\ dg_in = Idle
  /\ dg = Idle
  /\ dg_query = Idle

ConstructBody ==
  /\ comp = "body"
  /\ analyzer = Idle
  /\ analyzer' = [kind |-> "Body"] @@ construct(vloop)
  /\ UNCHANGED <<comp, vloop, solver_in, solver_out, vp_in, vp_out, dg_in,
                 dg, dg_query>>

SpecBody == BodyInit /\ [][ConstructBody]_vars

-----------------------------------------------------------------------------
(* Claims about VLoopBody::construct.                                      *)

BodyConstructed == comp = "body" /\ analyzer # Idle

InBodyIds == {n \in 1..Len(vloop.nodes) : in_body_of(vloop, n)}

\* The in-body nodes n uses: its inputs that are in the body.
InBodyInputs(n) ==
  {vloop.nodes[n].in[k] : k \in 1..Len(vloop.nodes[n].in)} \cap InBodyIds

\* body[0..n) holds every in-body node exactly once with no empty slot,
\* body_idx is its inverse and the loop head is at index 0.
BodyIsPermutation ==
  /\ DOMAIN analyzer.body = 0..(Cardinality(InBodyIds) - 1)
  /\ {analyzer.body[i] : i \in DOMAIN analyzer.body} = InBodyIds
  /\ \A i \in DOMAIN analyzer.body :
       analyzer.body[i] # 0 /\ analyzer.body_idx[analyzer.body[i]] = i
  /\ analyzer.body[0] = vloop.cl

\* C11 (as claimed): when construct succeeds, body[0..n) holds every in-body
\* node exactly once with no empty slot, body_idx(body[i]) = i, the loop
\* head is at index 0, and every non-phi node appears after at least one of
\* its in-body predecessors.
C11_ReversePostorder_AsClaimed ==
  (BodyConstructed /\ analyzer.result = "nullptr") =>
    /\ BodyIsPermutation
    /\ \A n \in InBodyIds :
         ~is_Phi(vloop.nodes[n]) =>
           \E p \in InBodyInputs(n) :
             analyzer.body_idx[p] < analyzer.body_idx[n]

\* C11: when construct succeeds, body[0..n) holds every in-body node exactly
\* once with no empty slot, body_idx(body[i]) = i, the loop head is at index
\* 0, and every non-phi node other than the loop head appears after every
\* in-body node it uses, of which there is at least one.
C11_ReversePostorder ==
  (BodyConstructed /\ analyzer.result = "nullptr") =>
    /\ BodyIsPermutation
    /\ \A n \in InBodyIds \ {vloop.cl} :
         ~is_Phi(vloop.nodes[n]) =>
           /\ InBodyInputs(n) # {}
           /\ \A p \in InBodyInputs(n) :
                analyzer.body_idx[p] < analyzer.body_idx[n]

\* A body where an extra node uses the increment and another extra node,
\* the out arrays listing the users in reverse.
C11_Witness ==
  /\ BodyConstructed
  /\ analyzer.result = "nullptr"
  /\ vloop.outs_rev
  /\ Len(vloop.nodes) = 10
  /\ InBodyInputs(10) = {3, 9}
  /\ in_body_of(vloop, 10)

\* Some in-body node is a LoadStore, a MergeMem or a data Proj.
HasDisallowedNode ==
  \E n \in InBodyIds : vloop.nodes[n].op \in {"LoadStore", "MergeMem", "Proj"}

\* C12: construct returns FAILURE_NODE_NOT_ALLOWED exactly when some in-body
\* node is a LoadStore, a MergeMem or a data Proj, and then the body order
\* is empty; otherwise it returns success.
C12_DisallowedNodes ==
  BodyConstructed =>
    /\ analyzer.result = "FAILURE_NODE_NOT_ALLOWED" <=> HasDisallowedNode
    /\ HasDisallowedNode => analyzer.body = <<>>
    /\ ~HasDisallowedNode => analyzer.result = "nullptr"

\* A loop whose only disallowed node is a data Proj that comes last, and in
\* which a LoadStore is not in the body.
C12_Witness ==
  /\ BodyConstructed
  /\ analyzer.result = "FAILURE_NODE_NOT_ALLOWED"
  /\ Len(vloop.nodes) = 10
  /\ vloop.nodes[9].op = "LoadStore" /\ ~in_body_of(vloop, 9)
  /\ vloop.nodes[10].op = "Proj" /\ in_body_of(vloop, 10)


-----------------------------------------------------------------------------
(* VLoop::check_preconditions. The loop l tells what the queries of the    *)
(* helper answer: vector_width is Matcher::vector_width_in_bytes(T_BYTE),  *)
(* exit_ctrl_is_cl whether _cl_exit->in(0) is _cl, backedge_outcnt is      *)
(* _cl->back_control()->outcnt(), pre_end whether find_pre_loop_end()      *)
(* finds the pre-loop end, pre_limit_op the opcode of its limit.           *)

\* The result of the helper: the state returned and the fields assigned on
\* the way.
Preconditions(return_state, assigned) ==
  [return_state |-> return_state, assigned |-> assigned]

\* The end of the helper, from the test of is_main_loop on, and the mutant
\* that looks for the pre-loop limit of every loop.
check_pre_loop_limit_AnyLoop(l) ==
  IF ~l.pre_end \/ l.pre_limit_op # "Opaque1"
    THEN Preconditions("FAILURE_PRE_LOOP_LIMIT", {"_cl", "_iv", "_cl_exit"})
    ELSE Preconditions("SUCCESS",
                       {"_cl", "_iv", "_cl_exit", "_pre_loop_end"})

check_pre_loop_limit(l) ==
  IF l.is_main_loop
    THEN IF ~l.pre_end
           THEN Preconditions("FAILURE_PRE_LOOP_LIMIT",
                              {"_cl", "_iv", "_cl_exit"})
         ELSE IF l.pre_limit_op # "Opaque1"
           THEN Preconditions("FAILURE_PRE_LOOP_LIMIT",
                              {"_cl", "_iv", "_cl_exit"})
         ELSE Preconditions("SUCCESS",
                            {"_cl", "_iv", "_cl_exit", "_pre_loop_end"})
  ELSE Preconditions("SUCCESS", {"_cl", "_iv", "_cl_exit"})

check_preconditions_helper(l) ==
  IF l.vector_width < 2 \/ ~is_power_of_2(l.vector_width)
    THEN Preconditions("FAILURE_VECTOR_WIDTH", {})
  ELSE IF ~l.is_valid_counted_loop
    THEN Preconditions("FAILURE_VALID_COUNTED_LOOP", {})
  ELSE IF l.is_vectorized_loop
    THEN Preconditions("FAILURE_ALREADY_VECTORIZED", {"_cl", "_iv"})
  ELSE IF l.is_unroll_only
    THEN Preconditions("FAILURE_UNROLL_ONLY", {"_cl", "_iv"})
  ELSE IF ~l.exit_ctrl_is_cl /\ ~l.allow_cfg
    THEN Preconditions("FAILURE_CONTROL_FLOW", {"_cl", "_iv", "_cl_exit"})
  ELSE IF l.backedge_outcnt # 1
    THEN Preconditions("FAILURE_BACKEDGE", {"_cl", "_iv", "_cl_exit"})
  ELSE check_pre_loop_limit(l)

\* VLoop::check_preconditions: true for success.
check_preconditions(l) ==
  check_preconditions_helper(l).return_state = "SUCCESS"

\* The loops the preconditions are checked on.
MaxVectorWidth == 9
MaxOutcnt == 2

PreconditionLoops ==
  [vector_width : 0..MaxVectorWidth,
   is_valid_counted_loop : BOOLEAN,
   is_vectorized_loop : BOOLEAN,
   is_unroll_only : BOOLEAN,
   exit_ctrl_is_cl : BOOLEAN,
   allow_cfg : BOOLEAN,
   backedge_outcnt : 1..MaxOutcnt,
   is_main_loop : BOOLEAN,
   pre_end : BOOLEAN,
   pre_limit_op : {"Opaque1", "ConI"}]

PreconditionsInit ==
  /\ comp = "preconditions"
  /\ vloop \in PreconditionLoops
  /\ analyzer = Idle
  /\ solver_in = Idle
  /\ solver_out = Idle
  /\ vp_in = Idle
  /\ vp_out = Idle
  /\ dg_in = Idle
  /\ dg = Idle
  /\ dg_query = Idle

CheckPreconditions ==
  /\ comp = "preconditions"
  /\ analyzer = Idle
  /\ analyzer' = [kind |-> "Preconditions",
                  helper |-> check_preconditions_helper(vloop),
                  success |-> check_preconditions(vloop)]
  /\ UNCHANGED <<comp, vloop, solver_in, solver_out, vp_in, vp_out, dg_in,
                 dg, dg_query>>

SpecPreconditions == PreconditionsInit /\ [][CheckPreconditions]_vars

-----------------------------------------------------------------------------
(* Claims about VLoop::check_preconditions.                                *)

PreconditionsChecked == comp = "preconditions" /\ analyzer # Idle

\* The conditions of the claim, in its order, each with its named reason.
WidthOk         == \E k \in 1..5 : vloop.vector_width = 2^k
CountedOk       == vloop.is_valid_counted_loop
NotVectorized   == ~vloop.is_vectorized_loop
NotUnrollOnly   == ~vloop.is_unroll_only
ControlFlowOk   == vloop.exit_ctrl_is_cl \/ vloop.allow_cfg
BackedgeOk      == vloop.backedge_outcnt = 1
PreLoopLimitOk  ==
  vloop.is_main_loop => (vloop.pre_end /\ vloop.pre_limit_op = "Opaque1")

FirstFailure ==
  IF ~WidthOk THEN "FAILURE_VECTOR_WIDTH"
  ELSE IF ~CountedOk THEN "FAILURE_VALID_COUNTED_LOOP"
  ELSE IF ~NotVectorized THEN "FAILURE_ALREADY_VECTORIZED"
  ELSE IF ~NotUnrollOnly THEN "FAILURE_UNROLL_ONLY"
  ELSE IF ~ControlFlowOk THEN "FAILURE_CONTROL_FLOW"
  ELSE IF ~BackedgeOk THEN "FAILURE_BACKEDGE"
  ELSE IF ~PreLoopLimitOk THEN "FAILURE_PRE_LOOP_LIMIT"
  ELSE "SUCCESS"

\* C13: check_preconditions returns true exactly when the vector width is a
\* power of two of at least 2, the loop is a valid counted int loop, not
\* vectorized, not unroll-only, without control flow unless the caller
\* allows it, with one user of the backedge and, for a main loop, with a
\* pre-loop end whose limit is an Opaque1; the reason of a failure is that
\* of the first condition that fails, and a loop that is not a main loop is
\* never rejected for the pre-loop limit.
C13_Preconditions ==
  PreconditionsChecked =>
    /\ analyzer.success <=>
         (WidthOk /\ CountedOk /\ NotVectorized /\ NotUnrollOnly
          /\ ControlFlowOk /\ BackedgeOk /\ PreLoopLimitOk)
    /\ analyzer.helper.return_state = FirstFailure
    /\ analyzer.success <=> (analyzer.helper.return_state = "SUCCESS")
    /\ ~vloop.is_main_loop =>
         analyzer.helper.return_state # "FAILURE_PRE_LOOP_LIMIT"

\* A main loop with control flow the caller allows, two users of the
\* backedge and no pre-loop end: rejected for the backedge.
C13_Witness ==
  /\ PreconditionsChecked
  /\ vloop.is_main_loop /\ ~vloop.pre_end
  /\ ~vloop.exit_ctrl_is_cl /\ vloop.allow_cfg
  /\ vloop.backedge_outcnt = 2
  /\ analyzer.helper.return_state = "FAILURE_BACKEDGE"
  /\ ~analyzer.success


-----------------------------------------------------------------------------
(* VLoopReductions::mark_reductions, on loops as above whose nodes can     *)
(* carry swapped (has_swapped_edges).                                      *)

\* n->in(i) of node n of loop g.
node_in(g, n, i) == g.nodes[n].in[i + 1]

req(n) == Len(n.in)

has_swapped_edges(n) == "swapped" \in DOMAIN n /\ n.swapped

\* The opcodes with a matching reduction node for their type.
is_reduction_operator(n) == n.op \in {"AddI", "MulI"}

\* The mutant that takes the edges as they are.
original_input_AsIs(g, n, i) == node_in(g, n, i)

\* VLoopReductions::original_input
original_input(g, n, i) ==
  IF has_swapped_edges(g.nodes[n])
    THEN IF i = 1 THEN node_in(g, n, 2)
         ELSE IF i = 2 THEN node_in(g, n, 1)
         ELSE node_in(g, n, i)
    ELSE node_in(g, n, i)

\* find_in_path(first, input, max, path, end) of mark_reductions, at
\* current with left more iterations and k nodes on the path so far:
\* path(n) is n->Opcode() == first->Opcode() && in_body(n), end(n) is
\* n == phi. The result is the PathEnd, <<0, -1>> for no path.
RECURSIVE find_in_path(_, _, _, _, _, _, _)
find_in_path(g, current, input, left, k, first, phi) ==
  IF left < 0 \/ current = 0 THEN <<0, -1>>
  ELSE IF current = phi THEN <<current, k>>
  ELSE IF ~(g.nodes[current].op = g.nodes[first].op
            /\ in_body_of(g, current))
    THEN <<0, -1>>
  ELSE find_in_path(g, original_input(g, current, input), input, left - 1,
                    k + 1, first, phi)

\* The first input of first along which there is a path to phi, -1 for
\* none.
RECURSIVE reduction_input(_, _, _, _)
reduction_input(g, first, phi, input) ==
  IF input >= req(g.nodes[first]) THEN -1
  ELSE IF find_in_path(g, first, input, Len(g.lpt_body), 0, first,
                       phi)[1] # 0
    THEN input
  ELSE reduction_input(g, first, phi, input + 1)

\* The nodes current, original_input(current), .. : path_nodes of them.
RECURSIVE reduction_path(_, _, _, _)
reduction_path(g, current, input, path_nodes) ==
  IF path_nodes <= 0 THEN <<>>
  ELSE <<current>> \o reduction_path(g, original_input(g, current, input),
                                     input, path_nodes - 1)

\* The test of the users of the first node of the path only.
used_in_loop_FirstOnly(g, path, phi) ==
  \E u \in Range(fast_outs(g, path[1])) : in_body_of(g, u) /\ u # phi

\* Whether a node of the path has a user in the body besides its successor
\* in the cycle, which is phi for the first node.
used_in_loop(g, path, phi) ==
  \E i \in 1..Len(path) :
    \E u \in Range(fast_outs(g, path[i])) :
      /\ in_body_of(g, u)
      /\ u # (IF i = 1 THEN phi ELSE path[i - 1])

\* The body of the loop of mark_reductions for one user phi of cl.
mark_phi(g, phi, marked) ==
  LET found(first, input) ==
        LET along(path) ==
              IF used_in_loop(g, path, phi) THEN marked
              ELSE marked \cup Range(path)
        IN IF input = -1 THEN marked
           ELSE along(reduction_path(g, first, input,
                  find_in_path(g, first, input, Len(g.lpt_body), 0, first,
                               phi)[2]))
      from(first) ==
        IF first = 0 THEN marked
        ELSE IF ~is_reduction_operator(g.nodes[first]) THEN marked
        ELSE found(first, reduction_input(g, first, phi, 1))
  IN IF ~is_Phi(g.nodes[phi]) THEN marked
     ELSE IF fast_outs(g, phi) = <<>> THEN marked
     ELSE IF phi = g.iv THEN marked
     ELSE from(node_in(g, phi, 2))

\* The loop over the users of cl from position i.
RECURSIVE mark_from(_, _, _)
mark_from(g, i, marked) ==
  IF i > Len(fast_outs(g, g.cl)) THEN marked
  ELSE mark_from(g, i + 1, mark_phi(g, fast_outs(g, g.cl)[i], marked))

\* VLoopReductions::mark_reductions: _loop_reductions.
mark_reductions(g) == mark_from(g, 1, {})


-----------------------------------------------------------------------------
(* The loops reductions are marked in: the skeleton, a phi 9 at the head   *)
(* and arithmetic nodes from 10 on; a node can have a store as user.       *)

MaxUnrolled == 4   \* nodes of an unrolled reduction chain
MaxArith == 2      \* arithmetic nodes of the other loops

RedPhi == FirstExtra

ArithNode(op, a, b, ib, sw) ==
  [op |-> op, in |-> <<0, a, b>>, in_body |-> ib, swapped |-> sw]

\* The loop with the phi whose backedge input is first, the arithmetic
\* nodes arith, and a store of every node of stored.
ReductionLoop(first, arith, stored) ==
  LoopOf(Skeleton(TRUE)
           \o <<[op |-> "Phi", in |-> <<1, 8, first>>, in_body |-> TRUE]>>
           \o arith
           \o [i \in 1..Len(stored) |->
                 [op |-> "StoreI", in |-> <<0, 8, 8, stored[i]>>,
                  in_body |-> TRUE]],
         FALSE, FALSE)

\* A chain of len nodes of opcode op from the phi to its backedge input,
\* along input c, modulo the inputs swapped of the nodes of sw.
Chain(op, len, c, sw) ==
  [j \in 1..len |->
     LET prev  == RedPhi + j - 1
         first == IF (c = 1) = (j \notin sw) THEN prev ELSE 8
         other == IF (c = 1) = (j \notin sw) THEN 8 ELSE prev
     IN ArithNode(op, first, other, TRUE, j \in sw)]

UnrolledLoops ==
  UNION {{ReductionLoop(RedPhi + len, Chain(op, len, c, sw), stored) :
            op \in {"AddI", "MulI"}, c \in {1, 2}, sw \in SUBSET (1..len),
            stored \in {<<>>} \cup {<<RedPhi + j>> : j \in 1..len}} :
         len \in 1..MaxUnrolled}

\* The arithmetic nodes that can follow arith: only an Add or a Mul can
\* have swapped edges.
ArithNodes(arith) ==
  LET above == RedPhi..(RedPhi + Len(arith))
  IN {ArithNode(op, a, b, ib, sw) :
        op \in {"AddI", "MulI", "SubI"}, a \in above \cup {8},
        b \in above \cup {8}, ib \in BOOLEAN, sw \in BOOLEAN}
     \ {ArithNode("SubI", a, b, ib, TRUE) :
          a \in above \cup {8}, b \in above \cup {8}, ib \in BOOLEAN}

RECURSIVE ArithLists(_, _)
ArithLists(arith, k) ==
  IF k = 0 THEN {arith}
  ELSE {arith} \cup UNION {ArithLists(Append(arith, e), k - 1) :
                             e \in ArithNodes(arith)}

\* The loops with the arithmetic nodes arith.
ArithLoops(arith) ==
  {ReductionLoop(first, arith, stored) :
     first \in {3, 8} \cup ((RedPhi + 1)..(RedPhi + Len(arith))),
     stored \in {<<>>} \cup {<<RedPhi + j>> : j \in 1..Len(arith)}}

ReductionsInit ==
  /\ comp = "reductions"
  /\ \/ vloop \in UnrolledLoops
     \/ \E arith \in ArithLists(<<>>, MaxArith) :
          vloop \in {g \in ArithLoops(arith) : WellFormed(g.nodes)}
  /\ analyzer = Idle
  /\ solver_in = Idle
  /\ solver_out = Idle
  /\ vp_in = Idle
  /\ vp_out = Idle
  /\ dg_in = Idle
  /\ dg = Idle
  /\ dg_query = Idle

MarkReductions ==
  /\ comp = "reductions"
  /\ analyzer = Idle
  /\ analyzer' = [kind |-> "Reductions",
                  loop_reductions |-> mark_reductions(vloop)]
  /\ UNCHANGED <<comp, vloop, solver_in, solver_out, vp_in, vp_out, dg_in,
                 dg, dg_query>>

SpecReductions == ReductionsInit /\ [][MarkReductions]_vars


-----------------------------------------------------------------------------
(* Claims about VLoopReductions::mark_reductions.                          *)

ReductionsMarked == comp = "reductions" /\ analyzer # Idle

\* Input i of node n, the edges of a node with swapped edges exchanged.
OrigIn(n, i) ==
  LET node == vloop.nodes[n]
      j == IF "swapped" \in DOMAIN node /\ node.swapped THEN 3 - i ELSE i
  IN node.in[j + 1]

\* The header phis other than iv whose backedge input is a reduction
\* operator.
ReductionPhis ==
  {p \in 1..Len(vloop.nodes) :
     /\ vloop.nodes[p].op = "Phi"
     /\ vloop.nodes[p].in[3] # 0
     /\ vloop.nodes[vloop.nodes[p].in[3]].op \in {"AddI", "MulI"}}

\* The nodes from cur along input k up to the phi p, through in-body nodes
\* of opcode op; 0 is among them if the phi is not reached that way.
RECURSIVE PathSet(_, _, _, _, _)
PathSet(cur, k, p, op, fuel) ==
  IF cur = p THEN {}
  ELSE IF fuel = 0 \/ cur = 0 THEN {0}
  ELSE IF vloop.nodes[cur].op # op \/ ~vloop.nodes[cur].in_body THEN {0}
  ELSE {cur} \cup PathSet(OrigIn(cur, k), k, p, op, fuel - 1)

CyclePath(p, k) ==
  PathSet(vloop.nodes[p].in[3], k, p, vloop.nodes[vloop.nodes[p].in[3]].op,
          Len(vloop.nodes))

\* No node of the path P of phi p along input k has an in-body user other
\* than its successor in the cycle.
CleanPath(P, p, k) ==
  \A x \in P : \A u \in 1..Len(vloop.nodes) :
    (vloop.nodes[u].in_body /\ x \in Range(vloop.nodes[u].in)) =>
      IF x = vloop.nodes[p].in[3] THEN u = p
      ELSE u \in P /\ OrigIn(u, k) = x

\* The input indices along which the cycle of phi p is looked for.
CycleInputs(p) == {k \in 1..2 : 0 \notin CyclePath(p, k)}

\* C17 (as claimed): for every header phi other than iv whose backedge
\* input is a reduction operator, if following one input index from it
\* through in-body nodes of the same opcode reaches the phi and no node of
\* that path has an in-body user besides its cycle successor, the nodes of
\* the path are marked; and nothing else is marked.
C17_ReductionMarking_AsClaimed ==
  ReductionsMarked =>
    analyzer.loop_reductions =
      UNION {UNION {CyclePath(p, k) :
                      k \in {i \in CycleInputs(p) :
                               CleanPath(CyclePath(p, i), p, i)}} :
             p \in ReductionPhis}

\* C17: for every header phi other than iv whose backedge input is a
\* reduction operator, if following an input index from it through in-body
\* nodes of the same opcode reaches the phi, and no node of the path along
\* the lowest such index has an in-body user besides its cycle successor,
\* the nodes of that path are marked; nothing else is marked: no phi, no
\* node outside the body, no node of an opcode other than that of the
\* backedge input of a header phi.
C17_ReductionMarking ==
  ReductionsMarked =>
    /\ analyzer.loop_reductions =
         UNION {IF /\ CycleInputs(p) # {}
                   /\ \E k \in CycleInputs(p) :
                        /\ \A i \in CycleInputs(p) : k <= i
                        /\ CleanPath(CyclePath(p, k), p, k)
                  THEN CyclePath(p, CHOOSE k \in CycleInputs(p) :
                                      \A i \in CycleInputs(p) : k <= i)
                  ELSE {} : p \in ReductionPhis}
    /\ \A n \in analyzer.loop_reductions :
         /\ ~is_Phi(vloop.nodes[n])
         /\ vloop.nodes[n].in_body
         /\ \E p \in ReductionPhis :
              vloop.nodes[n].op = vloop.nodes[vloop.nodes[p].in[3]].op

\* sum += a[i] unrolled by four: the four Add nodes are marked, the second
\* and the third with swapped edges.
C17_Witness ==
  /\ ReductionsMarked
  /\ analyzer.loop_reductions = {10, 11, 12, 13}
  /\ Len(vloop.nodes) = 13
  /\ vloop.nodes[13].op = "AddI"
  /\ vloop.nodes[11].swapped /\ vloop.nodes[12].swapped
  /\ ~vloop.nodes[10].swapped /\ ~vloop.nodes[13].swapped


-----------------------------------------------------------------------------
(* VLoopTypes::compute_vector_element_type. A type is named by its array   *)
(* element basic type; a load or store carries memory_type() as mt and a   *)
(* load its opcode as opc, any other node can carry the basic type of its  *)
(* igvn type as bt. velt[n] is the element type of body node n.            *)

IntTypes == {"T_INT", "T_SHORT", "T_CHAR", "T_BYTE", "T_BOOLEAN"}

\* Type::Type_basic_type(): T_INT for every TypeInt.
Type_basic_type(t) == IF t \in IntTypes THEN "T_INT" ELSE t

\* type2aelembytes of the element type.
data_size(t) ==
  IF t \in {"T_BYTE", "T_BOOLEAN"} THEN 1
  ELSE IF t \in {"T_SHORT", "T_CHAR"} THEN 2
  ELSE IF t = "T_INT" THEN 4
  ELSE 8

\* The basic type of igvn().type(n).
igvn_type(n) ==
  IF "bt" \in DOMAIN n THEN n.bt
  ELSE IF is_CFG(n) \/ n.op = "Phi_mem" THEN "T_VOID"
  ELSE "T_INT"

\* VLoopTypes::container_type
container_type(n) ==
  IF is_Mem(n)
    THEN IF n.op = "Load" /\ n.opc = "LoadUB" THEN "T_BOOLEAN"
         ELSE IF is_Store(n) /\ n.mt = "T_CHAR" THEN "T_SHORT"
         ELSE n.mt
  ELSE IF Type_basic_type(igvn_type(n)) = "T_INT" THEN "T_INT"
  ELSE igvn_type(n)

is_shift_opcode(op) == op \in {"LShiftI", "RShiftI", "URShiftI"}

\* VectorNode::vector_operands: <<start, end>>.
vector_operands(n) ==
  IF is_Load(n) THEN <<0, 0>>
  ELSE IF is_Store(n) THEN <<3, 4>>
  ELSE IF is_shift_opcode(n.op) THEN <<1, 2>>
  ELSE <<1, req(n)>>

\* The mutant without the exception for shifts, AbsI and ReverseBytesI.
narrowed_type_NoException(g, in, vtn, velt) == vtn

\* The type the input in of a node of type vtn is set to.
narrowed_type(g, in, vtn, velt) ==
  IF is_shift_opcode(g.nodes[in].op)
     \/ g.nodes[in].op \in {"AbsI", "ReverseBytesI"}
    THEN IF /\ is_Load(g.nodes[node_in(g, in, 1)])
            /\ in_body_of(g, node_in(g, in, 1))
            /\ Type_basic_type(velt[node_in(g, in, 1)]) = "T_INT"
           THEN velt[node_in(g, in, 1)]
         ELSE IF g.nodes[in].op # "LShiftI" THEN "T_INT"
         ELSE vtn
    ELSE vtn

\* The mutant that looks at the users in the body only, and the test of
\* the users of in: every one is in the body and has the type of n.
same_type_InBodyUsers(g, in, n, velt) ==
  \A use \in Range(fast_outs(g, in)) :
    in_body_of(g, use) => velt[use] = velt[n]

same_type(g, in, n, velt) ==
  \A use \in Range(fast_outs(g, in)) :
    in_body_of(g, use) /\ velt[use] = velt[n]

\* The loop over the vector operands j .. end-1 of n; st holds velt and the
\* log of the operands looked at, each with velt before and after.
RECURSIVE propagate_operands(_, _, _, _, _)
propagate_operands(g, n, j, end, st) ==
  IF j >= end THEN st
  ELSE
    LET set(in, velt) ==
          [velt |-> velt,
           log  |-> Append(st.log, [n |-> n, in |-> in,
                                    before |-> st.velt, after |-> velt])]
        operand(in) ==
          IF /\ ~is_Mem(g.nodes[in])
             /\ in_body_of(g, in)
             /\ Type_basic_type(st.velt[in]) = "T_INT"
             /\ data_size(st.velt[n]) < data_size(st.velt[in])
             /\ same_type(g, in, n, st.velt)
            THEN set(in, [st.velt EXCEPT ![in] =
                            narrowed_type(g, in, st.velt[n], st.velt)])
            ELSE set(in, st.velt)
    IN propagate_operands(g, n, j + 1, end, operand(node_in(g, n, j)))

\* The backward loop over the body from index i down to 0.
RECURSIVE propagate(_, _, _, _)
propagate(g, body, i, st) ==
  IF i < 0 THEN st
  ELSE IF Type_basic_type(st.velt[body[i]]) = "T_INT"
    THEN propagate(g, body, i - 1,
           propagate_operands(g, body[i],
                              vector_operands(g.nodes[body[i]])[1],
                              vector_operands(g.nodes[body[i]])[2], st))
  ELSE propagate(g, body, i - 1, st)

is_Bool(n) == n.op = "Bool"
is_Cmp(n)  == n.op = "CmpI"

\* The loop over the body from index i on that looks for Bool -> Cmp -> x.
RECURSIVE propagate_cmp(_, _, _, _)
propagate_cmp(g, body, i, velt) ==
  IF i \notin DOMAIN body THEN velt
  ELSE
    LET cmp_of(n, nn) ==
          IF is_Cmp(g.nodes[nn]) /\ node_in(g, nn, 0) = 0
            THEN IF in_body_of(g, node_in(g, nn, 1))
                   THEN [velt EXCEPT ![n] = velt[node_in(g, nn, 1)]]
                   ELSE [velt EXCEPT ![n] = velt[node_in(g, nn, 2)]]
            ELSE velt
        bool_of(n) ==
          IF is_Bool(g.nodes[n]) /\ node_in(g, n, 0) = 0
            THEN cmp_of(n, node_in(g, n, 1))
            ELSE cmp_of(n, n)
    IN propagate_cmp(g, body, i + 1, bool_of(body[i]))

\* The loop over the body from index i on that sets the container types.
RECURSIVE initial_types(_, _, _, _)
initial_types(g, body, i, velt) ==
  IF i \notin DOMAIN body THEN velt
  ELSE initial_types(g, body, i + 1,
         [velt EXCEPT ![body[i]] = container_type(g.nodes[body[i]])])

\* compute_vector_element_type for the body order body: velt and the log.
compute_vector_element_type(g, body) ==
  LET last(st) ==
        [velt |-> propagate_cmp(g, body, 0, st.velt), log |-> st.log]
  IN last(propagate(g, body, Cardinality(DOMAIN body) - 1,
       [velt |-> initial_types(g, body, 0,
                               [n \in 1..Len(g.nodes) |-> "none"] \o <<>>),
        log |-> <<>>]))

-----------------------------------------------------------------------------
(* The loops compute_vector_element_type is run on: the skeleton, a load   *)
(* (node 9), up to MaxTypeArith arithmetic nodes (AddI, RShiftI, LShiftI,  *)
(* AbsI) on the load, on the nodes before them and on a value from outside *)
(* the loop, up to MaxTypeStores stores of the values, and at most one     *)
(* user outside the body.                                                  *)

MaxTypeArith  == 2
MaxTypeStores == 2

TypeLoad == FirstExtra

LoadNodes ==
  {[op |-> "Load", opc |-> "LoadB",  mt |-> "T_BYTE",  in |-> <<0, 8, 2>>,
    in_body |-> TRUE],
   [op |-> "Load", opc |-> "LoadUB", mt |-> "T_BYTE",  in |-> <<0, 8, 2>>,
    in_body |-> TRUE],
   [op |-> "Load", opc |-> "LoadI",  mt |-> "T_INT",   in |-> <<0, 8, 2>>,
    in_body |-> TRUE]}

TypeArithNodes(nodes) ==
  {[op |-> o, in |-> <<0, a, b>>, in_body |-> TRUE] :
     o \in {"AddI", "RShiftI", "LShiftI"},
     a \in TypeLoad..Len(nodes),
     b \in {8} \cup ((TypeLoad + 1)..Len(nodes))}
  \cup {[op |-> "AbsI", in |-> <<0, a>>, in_body |-> TRUE] :
          a \in TypeLoad..Len(nodes)}

TypeStoreNodes(values) ==
  {[op |-> "Store", mt |-> t, in |-> <<0, 8, 2, v>>, in_body |-> TRUE] :
     t \in {"T_BYTE", "T_CHAR", "T_INT"}, v \in values}

OutsideUsers(values) ==
  {<<>>} \cup {<<[op |-> "AddI", in |-> <<0, v, 8>>, in_body |-> FALSE]>> :
                 v \in values}

RECURSIVE TypeArithLists(_, _)
TypeArithLists(nodes, k) ==
  IF k = 0 THEN {nodes}
  ELSE {nodes} \cup UNION {TypeArithLists(Append(nodes, e), k - 1) :
                             e \in TypeArithNodes(nodes)}

RECURSIVE TypeStoreLists(_, _, _)
TypeStoreLists(values, stores, k) ==
  IF k = 0 THEN {stores}
  ELSE {stores} \cup UNION {TypeStoreLists(values, Append(stores, e), k - 1) :
                              e \in TypeStoreNodes(values)}

\* The loops on the nodes nodes: the skeleton, the load and the arithmetic.
TypeLoops(nodes) ==
  {LoopOf(nodes \o stores \o outside, FALSE, FALSE) :
     stores \in TypeStoreLists(TypeLoad..Len(nodes), <<>>, MaxTypeStores)
                  \ {<<>>},
     outside \in OutsideUsers((TypeLoad + 1)..Len(nodes))}

TypesInit ==
  /\ comp = "types"
  /\ \E load \in LoadNodes :
       \E nodes \in TypeArithLists(Skeleton(TRUE) \o <<load>>, MaxTypeArith) :
         vloop \in TypeLoops(nodes)
  /\ analyzer = Idle
  /\ solver_in = Idle /\ solver_out = Idle
  /\ vp_in = Idle /\ vp_out = Idle
  /\ dg_in = Idle /\ dg = Idle /\ dg_query = Idle

\* VLoopTypes::compute_vector_element_type on the body VLoopBody::construct
\* leaves.
ComputeTypes ==
  /\ comp = "types"
  /\ analyzer = Idle
  /\ construct(vloop).result = "nullptr"
  /\ analyzer' = [kind |-> "Types"]
                   @@ compute_vector_element_type(vloop, construct(vloop).body)
  /\ UNCHANGED <<comp, solver_in, solver_out, vp_in, vp_out, dg_in, dg,
                 dg_query, vloop>>

SpecTypes == TypesInit /\ [][ComputeTypes]_vars

-----------------------------------------------------------------------------
(* Claims on VLoopTypes.                                                   *)

TypesComputed == comp = "types" /\ analyzer # Idle

\* The users of node in that are in the body, and all its users.
UsersOf(in) ==
  {u \in 1..Len(vloop.nodes) : \E k \in DOMAIN vloop.nodes[u].in :
                                 vloop.nodes[u].in[k] = in}
InBodyUsersOf(in) == {u \in UsersOf(in) : vloop.nodes[u].in_body}

\* e.in is a non-memory, in-body, integer-typed node of a larger data size
\* than the integer node e.n.
NarrowCandidate(e) ==
  /\ e.before[e.n] \in IntTypes
  /\ vloop.nodes[e.in].op \notin {"Load", "Store"}
  /\ vloop.nodes[e.in].in_body
  /\ e.before[e.in] \in IntTypes
  /\ data_size(e.before[e.n]) < data_size(e.before[e.in])

\* The type in is narrowed to: the type of n, but for a shift or an AbsI of
\* an in-body integer load the type of that load, and for a right shift or
\* an AbsI of anything else full int.
NarrowTo(e) ==
  LET x == vloop.nodes[e.in].in[2]
  IN IF /\ vloop.nodes[e.in].op \in {"RShiftI", "LShiftI", "AbsI"}
        /\ vloop.nodes[x].op = "Load" /\ vloop.nodes[x].in_body
       THEN e.before[x]
     ELSE IF vloop.nodes[e.in].op \in {"RShiftI", "AbsI"} THEN "T_INT"
     ELSE e.before[e.n]

\* The statement with users outside the body not counted. It does not hold:
\* a user outside the body keeps the type of in unchanged.
C19_NarrowPropagation_AsClaimed ==
  TypesComputed =>
    \A i \in DOMAIN analyzer.log :
      LET e == analyzer.log[i]
      IN NarrowCandidate(e) =>
           IF \A u \in InBodyUsersOf(e.in) : e.before[u] = e.before[e.n]
             THEN e.after = [e.before EXCEPT ![e.in] = NarrowTo(e)]
             ELSE e.after = e.before

\* C19: in compute_vector_element_type, for each integer node n and each
\* vector operand input in of n that is a non-memory, in-body, integer-typed
\* node of strictly larger data size than n, in is narrowed if every user of
\* in is in the loop body and already has the element type of n; if some
\* user lies outside the body or has a different element type, the type of
\* in is left unchanged; no other type changes.
C19_NarrowPropagation ==
  TypesComputed =>
    \A i \in DOMAIN analyzer.log :
      LET e == analyzer.log[i]
      IN NarrowCandidate(e) =>
           IF /\ UsersOf(e.in) = InBodyUsersOf(e.in)
              /\ \A u \in InBodyUsersOf(e.in) : e.before[u] = e.before[e.n]
             THEN e.after = [e.before EXCEPT ![e.in] = NarrowTo(e)]
             ELSE e.after = e.before

\* An input was narrowed to a smaller type, another one with all its users
\* in the body of the type of n was kept because of a user outside, and a
\* third one because of a user in the body of another type.
C19_Witness ==
  /\ TypesComputed
  /\ \E i, j, k \in DOMAIN analyzer.log :
       LET e == analyzer.log[i]
           f == analyzer.log[j]
           h == analyzer.log[k]
       IN /\ NarrowCandidate(e)
          /\ data_size(e.after[e.in]) < data_size(e.before[e.in])
          /\ NarrowCandidate(f)
          /\ UsersOf(f.in) # InBodyUsersOf(f.in)
          /\ \A u \in InBodyUsersOf(f.in) : f.before[u] = f.before[f.n]
          /\ f.after = f.before
          /\ NarrowCandidate(h)
          /\ \E u \in InBodyUsersOf(h.in) : h.before[u] # h.before[h.n]
          /\ h.after = h.before


-----------------------------------------------------------------------------
(* Claims on the states of the equations (4a, b, c) in solve.              *)

\* The state of the equation of the term C, as a function of the input.
TermState(C) ==
  LET pre == abs(solver_in.scale * solver_in.pre_stride)
  IN IF pre >= solver_in.aw
       THEN (IF C % solver_in.aw = 0 THEN "TRIVIAL" ELSE "EMPTY")
       ELSE (IF C % pre = 0 THEN "CONSTRAINED" ELSE "EMPTY")

ConstState ==
  TermState(solver_in.offset + (IF solver_in.init_is_con
                                  THEN solver_in.init_con * solver_in.scale
                                  ELSE 0))
InvarState ==
  TermState(IF solver_in.invar_present THEN abs(solver_in.invar_factor)
            ELSE 0)
InitState == TermState(IF solver_in.init_is_con THEN 0 ELSE solver_in.scale)

\* solve went past the tests of the strides, the scale and C_main.
StatesComputed ==
  /\ Solved
  /\ ~( /\ solver_out.kind = "Empty"
        /\ solver_out.reason \in {ReasonStride, ReasonScale, ReasonEQ2} )

\* C20: where solve computes the states of (4a, b, c), the state of each of
\* C_const, C_invar, C_init is TRIVIAL when |C_pre| >= aw and C % aw = 0,
\* EMPTY when |C_pre| >= aw and C % aw # 0, CONSTRAINED when |C_pre| < aw and
\* C % |C_pre| = 0, EMPTY when |C_pre| < aw and C % |C_pre| # 0; solve
\* returns Trivial iff all three are TRIVIAL, and at the Constrained return
\* all three are CONSTRAINED and |C_pre| < aw.
C20_SubEquationStates ==
  StatesComputed =>
    /\ eq4a_state(solver_in) = ConstState
    /\ eq4b_state(solver_in) = InvarState
    /\ eq4c_state(solver_in) = InitState
    /\ solver_out.kind = "Trivial"
         <=> {ConstState, InvarState, InitState} = {"TRIVIAL"}
    /\ solver_out.kind = "Constrained"
         => /\ {ConstState, InvarState, InitState} = {"CONSTRAINED"}
            /\ abs(solver_in.scale * solver_in.pre_stride) < solver_in.aw

\* A Constrained return with an invariant, a variable init and a negative
\* C_pre: none of the three terms is zero.
C20_Witness ==
  /\ StatesComputed
  /\ solver_out.kind = "Constrained"
  /\ solver_in.invar_present /\ solver_in.invar_factor # 0
  /\ ~solver_in.init_is_con
  /\ solver_in.offset # 0
  /\ solver_in.scale * solver_in.pre_stride < 0


-----------------------------------------------------------------------------
(* Claims on the analyze_only mode of VPointer.                            *)

\* C15: a VPointer constructed with analyze_only = true creates, value-
\* numbers and registers no IR node, whatever the address expression is.
C15_AnalyzeOnlyNoIR ==
  (Constructed /\ vp_in.env.analyze_only) => vp_out.created = {}


-----------------------------------------------------------------------------
(* Claims on the validity of a VPointer.                                   *)

\* The address the loop over the AddP chain of adr stops at: the first one
\* that is base or is no AddP.
RECURSIVE PeelEnd(_, _)
PeelEnd(adr, base) ==
  IF adr.adr = base \/ adr.adr.op # "AddP" THEN adr.adr
  ELSE PeelEnd(adr.adr, base)

\* The offsets of the AddPs of the chain, from adr on.
RECURSIVE PeeledOffsets(_, _)
PeeledOffsets(adr, base) ==
  IF adr.adr = base \/ adr.adr.op # "AddP" THEN <<adr.off>>
  ELSE <<adr.off>> \o PeeledOffsets(adr.adr, base)

\* scaled_iv_plus_offset matches every offset of offs from index i on.
RECURSIVE AllMatched(_, _, _)
AllMatched(offs, i, st) ==
  LET rest(r) == r.ok /\ (i = Len(offs) \/ AllMatched(offs, i + 1, r.st))
  IN rest(scaled_iv_plus_offset(offs[i], st, vp_in.env))

ValidityConditions ==
  LET adr  == vp_in.mem.adr
      base == adr.base
  IN /\ adr.op = "AddP"
     /\ get_ctrl(base) # "loop"
     /\ base = TopNode => vp_in.env.misaligned_vectors_ok
     /\ AllMatched(PeeledOffsets(adr, base), 1, NewVPointer(Subnodes(adr)))
     /\ get_ctrl(PeelEnd(adr, base)) # "loop"
     /\ PeelEnd(adr, base) = base \/ base = TopNode

\* C18: the constructor yields a valid VPointer only if the address input is
\* an AddP, base is not a loop member, base is not top unless misaligned
\* vectors are supported, every peeled AddP offset is matched by
\* scaled_iv_plus_offset, the final adr is not a loop member, and adr = base
\* or base is top; in every other case the result is invalid with base and
\* adr unset. The loop over the AddPs stops exactly at the first address
\* that equals base or is no AddP, which is the adr of a valid VPointer.
C18_Validity ==
  Constructed =>
    /\ valid(vp_out) <=> ValidityConditions
    /\ valid(vp_out) =>
         /\ vp_out.base = vp_in.mem.adr.base
         /\ vp_out.adr = PeelEnd(vp_in.mem.adr, vp_in.mem.adr.base)
    /\ ~valid(vp_out) => vp_out.base = NullNode /\ vp_out.adr = NullNode

\* A valid VPointer for an AddP on an AddP: the loop went round twice.
C18_Witness ==
  /\ Constructed
  /\ valid(vp_out)
  /\ vp_in.mem.adr.adr.op = "AddP"
  /\ vp_out.adr = vp_in.mem.adr.adr.adr


-----------------------------------------------------------------------------
(* Claims on the loop a[i + 7] = a[i].                                     *)

\* The load and the store of the loop a[i + k] = a[i].
CopyLoad  == dg_in.outs[1]
CopyStore == dg_in.tails[1]

\* build made an edge from the load to the store.
CopyEdge ==
  \E e \in DOMAIN dg.edges : dg.edges[e] = <<CopyLoad, CopyStore>>

\* The statement with an edge for a[i + 7] = a[i]. It does not hold: the
\* two VPointers compare as LESS, which is provably not equal.
C16_ShiftedCopyEdge_AsClaimed ==
  (Built /\ dg_in = ShiftedCopy(7)) => CopyEdge

\* C16: for a loop whose single slice holds the load a[i] and the store
\* a[i+7] (same base, same scale, offsets differing by 7 elements), the
\* VPointers are comparable and differ by 28 bytes, more than the 4 bytes of
\* an access, and build creates no edge from the load to the store: it
\* links the load to the sink of the slice and the head to both. For
\* a[i] = a[i] it does create the edge from the load to the store.
C16_ShiftedCopyEdge ==
  /\ (Built /\ dg_in = ShiftedCopy(7)) =>
       /\ comparable(VPointer(CopyLoad, BuildEnv), VPointer(CopyStore, BuildEnv))
       /\ VPointer(CopyStore, BuildEnv).offset
            - VPointer(CopyLoad, BuildEnv).offset = 7 * CopyLoad.size
       /\ ~CopyEdge
       /\ \E e \in DOMAIN dg.edges : dg.edges[e] = <<CopyLoad, slice_sink(1)>>
       /\ \E e \in DOMAIN dg.edges : dg.edges[e] = <<MemPhi(1), CopyLoad>>
       /\ \E e \in DOMAIN dg.edges : dg.edges[e] = <<MemPhi(1), CopyStore>>
  /\ (Built /\ dg_in = ShiftedCopy(0)) => CopyEdge

C16_Witness == Built /\ dg_in = ShiftedCopy(7)


-----------------------------------------------------------------------------
(* VLoopAnalyzer::analyze and analyze_helper, one action for every          *)
(* submodule they run. analyzer.pc is the position in the two functions,   *)
(* analyzer.steps the submodules run so far, in the order they ran.        *)

\* The mutant that takes every memory phi of the body as a slice head.
RECURSIVE memory_slices_analyze_AnyPhi(_, _, _)
memory_slices_analyze_AnyPhi(g, i, st) ==
  IF i > Len(fast_outs(g, g.cl)) THEN st
  ELSE
    LET slice(phi) ==
          IF /\ is_Phi(g.nodes[phi])
             /\ in_body_of(g, phi)
             /\ is_memory_phi(g.nodes[phi])
            THEN [heads |-> Append(st.heads, phi),
                  tails |-> Append(st.tails, node_in(g, phi, 2))]
            ELSE st
    IN memory_slices_analyze_AnyPhi(g, i + 1, slice(fast_outs(g, g.cl)[i]))

\* VLoopMemorySlices::analyze: the loop over the users of cl from position
\* i; st holds _heads and _tails.
RECURSIVE memory_slices_analyze(_, _, _)
memory_slices_analyze(g, i, st) ==
  IF i > Len(fast_outs(g, g.cl)) THEN st
  ELSE
    LET slice(phi) ==
          IF /\ is_Phi(g.nodes[phi])
             /\ in_body_of(g, phi)
             /\ is_memory_phi(g.nodes[phi])
             /\ node_in(g, phi, 2) # node_in(g, phi, 1)
            THEN [heads |-> Append(st.heads, phi),
                  tails |-> Append(st.tails, node_in(g, phi, 2))]
            ELSE st
    IN memory_slices_analyze(g, i + 1, slice(fast_outs(g, g.cl)[i]))

\* VLoopReductions::is_marked_reduction_loop
is_marked_reduction_loop(a) == a.loop_reductions # {}

\* Mutant: a loop without a store is given up, reduction or not.
no_reduction_or_store_NoStore(a) == a.heads = <<>>

\* The test of analyze_helper after the memory slices.
no_reduction_or_store(a) ==
  ~is_marked_reduction_loop(a) /\ a.heads = <<>>

\* The analyzer before analyze().
NewAnalyzer ==
  [kind |-> "Analyzer", pc |-> "analyze", steps |-> <<>>,
   return_state |-> "none", result |-> "none", loop_reductions |-> {},
   heads |-> <<>>, tails |-> <<>>, body |-> <<>>, velt |-> <<>>]

\* Submodule name has run; analyze_helper goes on at pc.
Ran(a, name, pc) == [a EXCEPT !.steps = Append(@, name), !.pc = pc]

\* analyze_helper returns return_state, and analyze whether it is SUCCESS.
Return(a, return_state) ==
  [a EXCEPT !.pc = "done", !.return_state = return_state,
            !.result = IF return_state = "SUCCESS" THEN "true" ELSE "false"]

-----------------------------------------------------------------------------
(* The loops analyze is run on: the skeleton, with or without a reduction  *)
(* phi and its AddI, a memory phi with a store or with nothing in the      *)
(* loop, and a LoadStore; the fields of the preconditions; the flags.      *)

AnalyzerNodes(reduction, memory, load_store) ==
  LET with_ls(nodes) ==
        IF load_store
          THEN Append(nodes, [op |-> "LoadStore", in |-> <<0, 2, 8>>,
                              in_body |-> TRUE])
          ELSE nodes
      with_mem(nodes) ==
        with_ls(IF memory = "store"
                  THEN nodes \o
                       <<[op |-> "Phi_mem", in |-> <<1, 8, Len(nodes) + 2>>,
                          in_body |-> TRUE],
                         [op |-> "Store", mt |-> "T_INT",
                          in |-> <<0, Len(nodes) + 1, 2, 8>>,
                          in_body |-> TRUE]>>
                ELSE IF memory = "empty"
                  THEN Append(nodes, [op |-> "Phi_mem", in |-> <<1, 8, 8>>,
                                      in_body |-> TRUE])
                ELSE nodes)
  IN with_mem(IF reduction
                THEN Skeleton(TRUE) \o
                     <<[op |-> "Phi", in |-> <<1, 8, FirstExtra + 1>>,
                        in_body |-> TRUE],
                       ArithNode("AddI", FirstExtra, 8, TRUE, FALSE)>>
                ELSE Skeleton(TRUE))

\* The preconditions of a main loop that hold but for the vector width and
\* the pre-loop limit.
AnalyzerPreconditions ==
  {p \in PreconditionLoops :
     /\ p.vector_width \in {1, 8}
     /\ p.is_valid_counted_loop /\ ~p.is_vectorized_loop /\ ~p.is_unroll_only
     /\ p.exit_ctrl_is_cl /\ ~p.allow_cfg /\ p.backedge_outcnt = 1
     /\ p.is_main_loop /\ p.pre_end}

MaxSlpUnroll == 4

AnalyzerLoops ==
  {p @@ LoopOf(AnalyzerNodes(r, m, ls), FALSE, FALSE) @@ flags :
     p \in AnalyzerPreconditions,
     r \in BOOLEAN, m \in {"none", "store", "empty"}, ls \in BOOLEAN,
     flags \in [SuperWordLoopUnrollAnalysis : BOOLEAN,
                slp_max_unroll : {0, MaxSlpUnroll},
                SuperWordReductions : BOOLEAN]}

AnalyzerInit ==
  /\ comp = "analyzer"
  /\ vloop \in AnalyzerLoops
  /\ analyzer = NewAnalyzer
  /\ solver_in = Idle /\ solver_out = Idle
  /\ vp_in = Idle /\ vp_out = Idle
  /\ dg_in = Idle /\ dg = Idle /\ dg_query = Idle

\* analyze(): check_preconditions, and false if it fails.
Analyze ==
  /\ comp = "analyzer" /\ analyzer.pc = "analyze"
  /\ analyzer' =
       IF check_preconditions(vloop)
         THEN Ran(analyzer, "check_preconditions", "analyze_helper")
         ELSE [Ran(analyzer, "check_preconditions", "done")
                 EXCEPT !.result = "false"]
  /\ UNCHANGED <<comp, vloop, solver_in, solver_out, vp_in, vp_out, dg_in,
                 dg, dg_query>>

\* analyze_helper(): the test of the max unroll the analysis assigned.
AnalyzeHelper ==
  /\ comp = "analyzer" /\ analyzer.pc = "analyze_helper"
  /\ analyzer' =
       IF vloop.SuperWordLoopUnrollAnalysis /\ vloop.slp_max_unroll = 0
         THEN Return(analyzer, "FAILURE_NO_MAX_UNROLL")
         ELSE [analyzer EXCEPT !.pc = "reductions"]
  /\ UNCHANGED <<comp, vloop, solver_in, solver_out, vp_in, vp_out, dg_in,
                 dg, dg_query>>

\* if (SuperWordReductions) _reductions.mark_reductions()
Reductions ==
  /\ comp = "analyzer" /\ analyzer.pc = "reductions"
  /\ analyzer' =
       IF vloop.SuperWordReductions
         THEN [Ran(analyzer, "mark_reductions", "memory_slices")
                 EXCEPT !.loop_reductions = mark_reductions(vloop)]
         ELSE [analyzer EXCEPT !.pc = "memory_slices"]
  /\ UNCHANGED <<comp, vloop, solver_in, solver_out, vp_in, vp_out, dg_in,
                 dg, dg_query>>

\* _memory_slices.analyze() and the test for a reduction or a store.
MemorySlices ==
  /\ comp = "analyzer" /\ analyzer.pc = "memory_slices"
  /\ LET sliced(a) ==
           IF no_reduction_or_store(a)
             THEN Return(a, "FAILURE_NO_REDUCTION_OR_STORE")
             ELSE a
         found(st) ==
           sliced([Ran(analyzer, "memory_slices", "body")
                     EXCEPT !.heads = st.heads, !.tails = st.tails])
     IN analyzer' = found(memory_slices_analyze(vloop, 1,
                            [heads |-> <<>>, tails |-> <<>>]))
  /\ UNCHANGED <<comp, vloop, solver_in, solver_out, vp_in, vp_out, dg_in,
                 dg, dg_query>>

\* _body.construct(), and its failure returned.
Body ==
  /\ comp = "analyzer" /\ analyzer.pc = "body"
  /\ LET constructed(c) ==
           IF c.result # "nullptr"
             THEN Return(Ran(analyzer, "body", "done"), c.result)
             ELSE [Ran(analyzer, "body", "types") EXCEPT !.body = c.body]
     IN analyzer' = constructed(construct(vloop))
  /\ UNCHANGED <<comp, vloop, solver_in, solver_out, vp_in, vp_out, dg_in,
                 dg, dg_query>>

\* _types.compute_vector_element_type()
Types ==
  /\ comp = "analyzer" /\ analyzer.pc = "types"
  /\ analyzer' =
       [Ran(analyzer, "types", "dependence_graph")
          EXCEPT !.velt = compute_vector_element_type(vloop,
                                                      analyzer.body).velt]
  /\ UNCHANGED <<comp, vloop, solver_in, solver_out, vp_in, vp_out, dg_in,
                 dg, dg_query>>

\* _dependence_graph.build() and the return of SUCCESS.
DependenceGraph ==
  /\ comp = "analyzer" /\ analyzer.pc = "dependence_graph"
  /\ analyzer' = Return(Ran(analyzer, "dependence_graph", "done"), "SUCCESS")
  /\ UNCHANGED <<comp, vloop, solver_in, solver_out, vp_in, vp_out, dg_in,
                 dg, dg_query>>

AnalyzerNext ==
  \/ Analyze
  \/ AnalyzeHelper
  \/ Reductions
  \/ MemorySlices
  \/ Body
  \/ Types
  \/ DependenceGraph

SpecAnalyzer == AnalyzerInit /\ [][AnalyzerNext]_vars

-----------------------------------------------------------------------------
(* Claims on VLoopAnalyzer::analyze.                                       *)

Analyzing == comp = "analyzer"

\* The loop has a memory phi in the body with a store on its backedge.
HasStoreSlice ==
  \E n \in InBodyIds :
    /\ vloop.nodes[n].op = "Phi_mem"
    /\ vloop.nodes[n].in[1] = vloop.cl
    /\ vloop.nodes[n].in[3] # vloop.nodes[n].in[2]

\* mark_reductions is enabled and marks a node of the loop.
HasMarkedReduction ==
  vloop.SuperWordReductions /\ mark_reductions(vloop) # {}

MaxUnrollMissing ==
  vloop.SuperWordLoopUnrollAnalysis /\ vloop.slp_max_unroll = 0

\* The steps up to the memory slices, and the six of a whole run.
StepsToSlices ==
  <<"check_preconditions">>
    \o (IF vloop.SuperWordReductions THEN <<"mark_reductions">> ELSE <<>>)
    \o <<"memory_slices">>
AllSteps == StepsToSlices \o <<"body", "types", "dependence_graph">>

\* The steps analyze runs on the loop, by the first step that fails.
ExpectedSteps ==
  IF FirstFailure # "SUCCESS" \/ MaxUnrollMissing
    THEN <<"check_preconditions">>
  ELSE IF ~HasMarkedReduction /\ ~HasStoreSlice THEN StepsToSlices
  ELSE IF HasDisallowedNode THEN Append(StepsToSlices, "body")
  ELSE AllSteps

IsPrefix(s, t) == Len(s) <= Len(t) /\ s = SubSeq(t, 1, Len(s))

\* C14: analyze runs check_preconditions, then (if enabled) mark_reductions,
\* then the memory slices, then the body, then the element types, then the
\* dependence graph, in that order; it returns false without running any
\* later step as soon as the preconditions fail, the max unroll is missing,
\* the loop has neither a marked reduction nor a memory slice, or the body
\* returns a failure; it returns true only when every step has run.
C14_PipelineOrder ==
  Analyzing =>
    /\ IsPrefix(analyzer.steps, ExpectedSteps)
    /\ analyzer.pc = "done" <=> analyzer.result # "none"
    /\ analyzer.pc = "done" => analyzer.steps = ExpectedSteps
    /\ analyzer.result = "true" <=>
         (analyzer.pc = "done" /\ analyzer.steps = AllSteps)
    /\ analyzer.result = "true" => analyzer.return_state = "SUCCESS"
    /\ analyzer.result = "false" =>
         analyzer.return_state =
           IF FirstFailure # "SUCCESS" THEN "none"
           ELSE IF MaxUnrollMissing THEN "FAILURE_NO_MAX_UNROLL"
           ELSE IF ~HasMarkedReduction /\ ~HasStoreSlice
             THEN "FAILURE_NO_REDUCTION_OR_STORE"
           ELSE "FAILURE_NODE_NOT_ALLOWED"

\* A whole run on a loop with a reduction and no store: true after the six
\* steps.
C14_Witness ==
  /\ Analyzing
  /\ analyzer.result = "true"
  /\ Len(analyzer.steps) = 6
  /\ analyzer.loop_reductions # {}
  /\ analyzer.heads = <<>>


-----------------------------------------------------------------------------
(* Claims on VPointer::cmp, for the pairs build compares.                  *)

\* The pairs <<s1, s2>> of slice i that build hands to cmp.
ComparedPairs(i) ==
  LET sl == SliceNodes(i)
  IN {<<sl[j], sl[k]>> : j, k \in DOMAIN sl} \ 
       {pr \in {<<sl[j], sl[k]>> : j, k \in DOMAIN sl} :
          pr[1] = pr[2] \/ (pr[1].op = "Load" /\ pr[2].op = "Load")}

AllComparedPairs == UNION {ComparedPairs(i) : i \in DOMAIN dg_in.heads}

\* Both VPointers are valid and agree in base, adr, invar and scale.
SameShape(p, q) ==
  /\ p.adr # NullNode /\ q.adr # NullNode
  /\ p.base = q.base /\ p.adr = q.adr
  /\ p.invar = q.invar /\ p.scale = q.scale

-----------------------------------------------------------------------------
(* The queries independent(s1, s2) for any two nodes of the body, on the   *)
(* graphs of the loops with at most MaxQueryOps memory nodes in the first  *)
(* slice.                                                                  *)

\* The loop of mutually_independent() over the worklist from position i.
RECURSIVE mutually_independent_from(_, _, _, _, _, _)
mutually_independent_from(worklist, i, nodes_set, min_d, in, g) ==
  IF i > Len(worklist) THEN TRUE
  ELSE
    LET ps == traversed(worklist[i], min_d, in, g)
    IN IF Range(ps) \cap nodes_set # {} THEN FALSE
       ELSE mutually_independent_from(push_all(worklist, ps), i + 1,
                                      nodes_set, min_d, in, g)

\* mutually_independent() with min_d the depth of the first node of the list.
mutually_independent_FirstDepth(nodes, in, g) ==
  mutually_independent_from(push_all(<<>>, nodes), 1, Range(nodes),
                            g.depth[nodes[1]], in, g)

\* VLoopDependenceGraph::mutually_independent
mutually_independent(nodes, in, g) ==
  LET min_d == CHOOSE d \in {g.depth[n] : n \in Range(nodes)} :
                 \A n \in Range(nodes) : d <= g.depth[n]
  IN mutually_independent_from(push_all(<<>>, nodes), 1, Range(nodes), min_d,
                               in, g)

MaxQueryOps == 2
MaxListLen == 3   \* nodes of a list given to mutually_independent

\* The lists of at most MaxListLen distinct nodes of body.
QueryLists(body) ==
  {push_all(<<>>, [k \in 1..MaxListLen |-> body[ix[k]]]) :
     ix \in [1..MaxListLen -> DOMAIN body]}

QueryInputs(one_slice) ==
  IF one_slice
    THEN {DGInput(<<MemPhi(1)>>, <<s.tail>>, s.outs) :
            s \in SlicesFrom(MemPhi(1), <<>>, MaxQueryOps)}
    ELSE UNION {{DGInput(<<MemPhi(1), MemPhi(2)>>, <<s.tail, t>>, s.outs) :
                   t \in SecondTails(s.outs)} :
                s \in SlicesFrom(MemPhi(1), <<>>, MaxQueryOps - 1)}

QueryInit ==
  /\ comp = "depgraph"
  /\ \E one_slice \in BOOLEAN : dg_in \in QueryInputs(one_slice)
  /\ dg = Idle
  /\ dg_query = Idle
  /\ solver_in = Idle /\ solver_out = Idle
  /\ vp_in = Idle /\ vp_out = Idle
  /\ vloop = Idle /\ analyzer = Idle

\* A query independent(s1, s2) for two nodes of the body.
IndependentBody ==
  /\ comp = "depgraph"
  /\ dg # Idle
  /\ dg_query = Idle
  /\ \E s1, s2 \in Range(dg_in.body) :
       dg_query' = [s1 |-> s1, s2 |-> s2,
                    independent |-> independent(s1, s2, dg_in, dg)]
  /\ UNCHANGED <<comp, dg_in, dg, solver_in, solver_out, vp_in, vp_out, vloop,
               analyzer>>

\* A query mutually_independent(nodes) for a list of nodes of the body.
MutuallyIndependent ==
  /\ comp = "depgraph"
  /\ dg # Idle
  /\ dg_query = Idle
  /\ \E nodes \in QueryLists(dg_in.body) :
       dg_query' = [nodes |-> nodes,
                    mutually_independent |->
                      mutually_independent(nodes, dg_in, dg)]
  /\ UNCHANGED <<comp, dg_in, dg, solver_in, solver_out, vp_in, vp_out, vloop,
               analyzer>>

SpecQueries ==
  QueryInit /\ [][Build \/ IndependentBody \/ MutuallyIndependent]_vars

-----------------------------------------------------------------------------
(* Claims on independent.                                                  *)

Queried == Built /\ "s1" \in DOMAIN dg_query

\* The nodes a path of in-body predecessor edges leads to from the nodes of
\* frontier, every node of the path after its start being in allowed.
RECURSIVE ReachedFrom(_, _, _)
ReachedFrom(frontier, seen, allowed) ==
  LET next == (UNION {InBodyPreds(n) : n \in frontier} \cap allowed) \ seen
  IN IF next = {} THEN seen
     ELSE ReachedFrom(next, seen \cup next, allowed)

\* A path of predecessor edges from a to b, and one through no phi.
Path(a, b) == b \in ReachedFrom({a}, {}, Range(dg_in.body))
PathWithoutPhi(a, b) ==
  b \in ReachedFrom({a}, {}, {n \in Range(dg_in.body) : ~is_Phi(n)})

-----------------------------------------------------------------------------
(* Claims on mutually_independent.                                         *)

ListQueried == Built /\ "nodes" \in DOMAIN dg_query

PairwiseIndependent(nodes) ==
  \A a, b \in Range(nodes) : a # b => independent(a, b, dg_in, dg)

-----------------------------------------------------------------------------
(* Claims on the termination of compute_max_depth.                         *)

NonPhiBody == {n \in Range(dg_in.body) : ~is_Phi(n)}

\* A path of one or more predecessor edges from n back to n, every node on
\* it taken from allowed.
OnCycle(n, allowed) == n \in ReachedFrom({n}, {}, allowed)

\* C24: the do-while loop of compute_max_depth ends after at most (number of
\* body nodes + 1) passes; the predecessor relation restricted to the body
\* nodes that are no phis is acyclic, i.e. every cycle of in-body
\* predecessor edges passes through a phi.
C24_MaxDepthTerminates ==
  Built =>
    /\ dg.ct <= Len(dg_in.body) + 1
    /\ \A n \in NonPhiBody : ~OnCycle(n, NonPhiBody)

\* A graph whose predecessor edges form a cycle through the memory phi, and
\* whose depths were still changed by the second pass.
C24_Witness ==
  /\ Built
  /\ dg.ct >= 3
  /\ \E n \in NonPhiBody :
       is_Store(n) /\ OnCycle(n, Range(dg_in.body))

-----------------------------------------------------------------------------
(* Claims on the wiring of the slice heads and sinks.                      *)

Sentinels == {root, sink} \cup {slice_sink(i) : i \in DOMAIN dg_in.heads}

\* s has an edge from, or to, another memory node of slice i.
HasIncomingDependence(s, i) == \E t \in Range(SliceNodes(i)) : HasEdge(t, s)
HasOutgoingDependence(s, i) == \E t \in Range(SliceNodes(i)) : HasEdge(s, t)

\* C25: after build, in every slice the root has an edge to the slice head
\* and the slice sink has an edge to the sink; every memory node of the
\* slice has an incoming edge, from the slice head iff from no node of the
\* slice, and an outgoing edge, to the slice sink iff to no node of the
\* slice; and PredsIterator enumerates no sentinel (root, sink, slice sink)
\* for a body node.
C25_HeadAndSinkWiring ==
  Built =>
    /\ \A i \in DOMAIN dg_in.heads :
         /\ HasEdge(root, dg_in.heads[i])
         /\ HasEdge(slice_sink(i), sink)
         /\ \A s \in Range(SliceNodes(i)) :
              /\ HasEdge(dg_in.heads[i], s) \/ HasIncomingDependence(s, i)
              /\ HasEdge(dg_in.heads[i], s) <=> ~HasIncomingDependence(s, i)
              /\ HasEdge(s, slice_sink(i)) \/ HasOutgoingDependence(s, i)
              /\ HasEdge(s, slice_sink(i)) <=> ~HasOutgoingDependence(s, i)
    /\ \A n \in Range(dg_in.body) :
         Range(PredsIterator(n, dg_in, dg.edges)) \cap Sentinels = {}

\* A slice with a node below the head only, a node between two dependences,
\* and a node above the slice sink only.
C25_Witness ==
  /\ Built
  /\ \E a, b, c \in Range(SliceNodes(1)) :
       /\ HasEdge(dg_in.heads[1], a) /\ HasEdge(a, b) /\ HasEdge(b, c)
       /\ HasEdge(c, slice_sink(1))
       /\ ~HasEdge(dg_in.heads[1], b) /\ ~HasEdge(b, slice_sink(1))

-----------------------------------------------------------------------------
(* Claims on the marking of a whole reduction cycle.                       *)

\* The phis mark_reductions looks for a cycle from: the header phis with a
\* user, other than iv, whose backedge input is a reduction operator.
CandidatePhis ==
  {p \in ReductionPhis : p # vloop.iv /\ fast_outs(vloop, p) # <<>>}

LowestInput(p) ==
  CHOOSE k \in CycleInputs(p) : \A i \in CycleInputs(p) : k <= i

\* The candidate reduction path of phi p: the one along the lowest input
\* index that reaches the phi.
CandidatePath(p) == CyclePath(p, LowestInput(p))

\* C26: for a phi with a candidate reduction path, if a node of the path has
\* an in-body user that is not its successor in the cycle, no node of the
\* path is marked, and otherwise all of them are; the search from the
\* backedge input visits at most as many nodes as the loop has, and when no
\* input index leads to the phi mark_reductions returns with nothing
\* marked for it.
C26_MarkingAllOrNothing ==
  ReductionsMarked =>
    \A p \in CandidatePhis :
      LET first == vloop.nodes[p].in[3]
          found(k) == find_in_path(vloop, first, k, Len(vloop.lpt_body), 0,
                                   first, p)
      IN /\ \A k \in 1..2 : found(k)[2] <= Len(vloop.lpt_body)
         /\ IF CycleInputs(p) = {}
              THEN /\ \A k \in 1..2 : found(k) = <<0, -1>>
                   /\ analyzer.loop_reductions = {}
              ELSE /\ ~CleanPath(CandidatePath(p), p, LowestInput(p)) =>
                        analyzer.loop_reductions \cap CandidatePath(p) = {}
                   /\ \/ analyzer.loop_reductions \cap CandidatePath(p) = {}
                      \/ CandidatePath(p) \subseteq analyzer.loop_reductions

\* A cycle of three or more nodes whose first node is used by the phi only
\* and one of whose other nodes is stored: nothing is marked.
C26_Witness ==
  /\ ReductionsMarked
  /\ analyzer.loop_reductions = {}
  /\ \E p \in CandidatePhis :
       /\ CycleInputs(p) # {}
       /\ Cardinality(CandidatePath(p)) >= 3
       /\ ~CleanPath(CandidatePath(p), p, LowestInput(p))
       /\ CleanPath({vloop.nodes[p].in[3]}, p, LowestInput(p))

-----------------------------------------------------------------------------
(* VLoopMemorySlices::analyze and get_slice on loops with a memory phi, a  *)
(* chain of stores below it and loads of the memory states of the chain.   *)

\* VLoopMemorySlices::get_slice from node n up to head: the in-body loads
\* among the outputs of n, then n unless it is the head, then the same for
\* n->in(MemNode::Memory).
RECURSIVE memory_slices_get_slice(_, _, _)
memory_slices_get_slice(g, head, n) ==
  LET loads == SelectSeq(fast_outs(g, n),
                         LAMBDA out : /\ is_Load(g.nodes[out])
                                      /\ in_body_of(g, out))
  IN IF n = head THEN loads
     ELSE loads \o <<n>>
            \o memory_slices_get_slice(g, head, node_in(g, n, 1))

MaxSliceOps == 3   \* loads and stores below the first memory phi

SlicePhi == FirstExtra

\* The last store of the chain ops, which starts at index SlicePhi + 1; the
\* phi if there is none.
LastState(ops) ==
  Max({SlicePhi} \cup {SlicePhi + k : k \in {j \in DOMAIN ops : is_Store(ops[j])}})

\* The memory nodes that can follow ops: a store of the last memory state,
\* or a load, in the body or not, of any memory state.
SliceOps(ops) ==
  {[op |-> "Store", mt |-> "T_INT", in |-> <<0, LastState(ops), 2, 8>>,
    in_body |-> TRUE]}
  \cup {[op |-> "Load", opc |-> "LoadI", mt |-> "T_INT", in |-> <<0, m, 2>>,
         in_body |-> ib] :
          m \in {SlicePhi} \cup
                {SlicePhi + k : k \in {j \in DOMAIN ops : is_Store(ops[j])}},
          ib \in BOOLEAN}

RECURSIVE SliceOpLists(_, _)
SliceOpLists(ops, k) ==
  IF k = 0 THEN {ops}
  ELSE {ops} \cup UNION {SliceOpLists(Append(ops, e), k - 1) :
                           e \in SliceOps(ops)}

\* The loop with the chain ops below the first memory phi, whose backedge
\* input is the last store, or the entry input if there is no store, and
\* a second memory phi: none, one with nothing in the loop, one with a
\* store, or one that is not in the body.
SliceLoopNodes(ops, second) ==
  LET tail  == IF LastState(ops) = SlicePhi THEN 8 ELSE LastState(ops)
      first == Skeleton(TRUE)
                 \o <<[op |-> "Phi_mem", in |-> <<1, 8, tail>>,
                       in_body |-> TRUE]>>
                 \o ops
      phi2  == Len(first) + 1
  IN first \o
       (IF second = "empty"
          THEN <<[op |-> "Phi_mem", in |-> <<1, 8, 8>>, in_body |-> TRUE]>>
        ELSE IF second = "store"
          THEN <<[op |-> "Phi_mem", in |-> <<1, 8, phi2 + 1>>,
                  in_body |-> TRUE],
                 [op |-> "Store", mt |-> "T_INT", in |-> <<0, phi2, 2, 8>>,
                  in_body |-> TRUE]>>
        ELSE IF second = "dead"
          THEN <<[op |-> "Phi_mem", in |-> <<1, 8, phi2 + 1>>,
                  in_body |-> FALSE],
                 [op |-> "Store", mt |-> "T_INT", in |-> <<0, 8, 2, 8>>,
                  in_body |-> FALSE]>>
        ELSE <<>>)

SliceLoops ==
  {LoopOf(SliceLoopNodes(ops, second), FALSE, outs_rev) :
     ops \in SliceOpLists(<<>>, MaxSliceOps),
     second \in {"none", "empty", "store", "dead"},
     outs_rev \in BOOLEAN}

SlicesInit ==
  /\ comp = "slices"
  /\ vloop \in SliceLoops
  /\ analyzer = Idle
  /\ solver_in = Idle /\ solver_out = Idle
  /\ vp_in = Idle /\ vp_out = Idle
  /\ dg_in = Idle /\ dg = Idle /\ dg_query = Idle

\* VLoopMemorySlices::analyze
SlicesAnalyze ==
  /\ comp = "slices"
  /\ analyzer = Idle
  /\ LET found(st) ==
           analyzer' = [kind |-> "Slices", heads |-> st.heads,
                        tails |-> st.tails, queried |-> 0, slice |-> <<>>]
     IN found(memory_slices_analyze(vloop, 1,
                                    [heads |-> <<>>, tails |-> <<>>]))
  /\ UNCHANGED <<comp, vloop, solver_in, solver_out, vp_in, vp_out, dg_in,
                 dg, dg_query>>

\* get_slice(heads[i], tails[i], slice), as build() calls it.
GetSlice ==
  /\ comp = "slices"
  /\ analyzer # Idle
  /\ analyzer.queried = 0
  /\ \E i \in DOMAIN analyzer.heads :
       analyzer' = [analyzer EXCEPT
                      !.queried = i,
                      !.slice = memory_slices_get_slice(
                                  vloop, analyzer.heads[i],
                                  analyzer.tails[i])]
  /\ UNCHANGED <<comp, vloop, solver_in, solver_out, vp_in, vp_out, dg_in,
                 dg, dg_query>>

SpecSlices == SlicesInit /\ [][SlicesAnalyze \/ GetSlice]_vars

-----------------------------------------------------------------------------
(* Claims on the memory slices.                                            *)

SlicesAnalyzed == comp = "slices" /\ analyzer # Idle

\* The in-body memory phis at the loop head whose backedge input differs
\* from their entry input.
SliceHeads ==
  {n \in 1..Len(vloop.nodes) :
     /\ vloop.nodes[n].op = "Phi_mem"
     /\ vloop.nodes[n].in_body
     /\ vloop.nodes[n].in[1] = vloop.cl
     /\ vloop.nodes[n].in[3] # vloop.nodes[n].in[2]}

\* The stores on the memory chain from n up to, excluding, head.
RECURSIVE StoresUpTo(_, _)
StoresUpTo(head, n) ==
  IF n = head THEN {} ELSE {n} \cup StoresUpTo(head, vloop.nodes[n].in[2])

\* The nodes get_slice is to return for head and tail.
SliceMembers(head, tail) ==
  StoresUpTo(head, tail)
    \cup {l \in 1..Len(vloop.nodes) :
            /\ vloop.nodes[l].op = "Load"
            /\ vloop.nodes[l].in_body
            /\ vloop.nodes[l].in[2] \in {head} \cup StoresUpTo(head, tail)}

\* The place of n in memory order: a store after the loads of the state it
\* overwrites, a load after the store whose state it reads.
RECURSIVE MemoryOrder(_, _)
MemoryOrder(head, n) ==
  IF n = head THEN 0
  ELSE IF vloop.nodes[n].op = "Load"
    THEN MemoryOrder(head, vloop.nodes[n].in[2]) + 1
  ELSE MemoryOrder(head, vloop.nodes[n].in[2]) + 2

\* C27: after analyze, heads and tails have the same length, heads holds
\* exactly the in-body memory phis at the loop head whose backedge input
\* differs from their entry input, each once, and tails[i] is the backedge
\* input of heads[i]; get_slice(heads[i], tails[i]) returns every store on
\* the memory chain from the tail up to, excluding, the head and every
\* in-body load of the head or of one of those stores, never the head, and
\* a node is at a higher index than the nodes that follow it in memory
\* order.
C27_MemorySlices ==
  SlicesAnalyzed =>
    /\ Len(analyzer.heads) = Len(analyzer.tails)
    /\ Range(analyzer.heads) = SliceHeads
    /\ Len(analyzer.heads) = Cardinality(SliceHeads)
    /\ \A i \in DOMAIN analyzer.heads :
         analyzer.tails[i] = vloop.nodes[analyzer.heads[i]].in[3]
    /\ analyzer.queried # 0 =>
         LET head == analyzer.heads[analyzer.queried]
             tail == analyzer.tails[analyzer.queried]
             sl   == analyzer.slice
         IN /\ Range(sl) = SliceMembers(head, tail)
            /\ head \notin Range(sl)
            /\ \A j, k \in DOMAIN sl :
                 MemoryOrder(head, sl[k]) > MemoryOrder(head, sl[j]) => k < j

\* Two slices, the first with a store and a load of it in the slice, and a
\* load of the phi outside the body left out.
C27_Witness ==
  /\ SlicesAnalyzed
  /\ Len(analyzer.heads) = 2
  /\ analyzer.queried # 0
  /\ Len(analyzer.slice) = 2
  /\ \E j, k \in DOMAIN analyzer.slice :
       /\ j < k
       /\ is_Load(vloop.nodes[analyzer.slice[j]])
       /\ is_Store(vloop.nodes[analyzer.slice[k]])
  /\ \E l \in 1..Len(vloop.nodes) :
       /\ is_Load(vloop.nodes[l]) /\ ~vloop.nodes[l].in_body
       /\ vloop.nodes[l].in[2] = analyzer.heads[analyzer.queried]

-----------------------------------------------------------------------------
(* Claims on the exception for shifts, AbsI and ReverseBytesI.             *)

\* set_velt_type(in, vt) is reached for the operand e.in of e.n.
NarrowingApplies(e) ==
  /\ NarrowCandidate(e)
  /\ UsersOf(e.in) = InBodyUsersOf(e.in)
  /\ \A u \in InBodyUsersOf(e.in) : e.before[u] = e.before[e.n]

\* The first operand of e.in is an in-body load of an integer type.
FirstOperandIsLoad(e) ==
  LET load == vloop.nodes[e.in].in[2]
  IN /\ vloop.nodes[load].op = "Load"
     /\ vloop.nodes[load].in_body
     /\ e.before[load] \in IntTypes

FirstOperandType(e) == e.before[vloop.nodes[e.in].in[2]]

RightShiftLike == {"RShiftI", "URShiftI", "AbsI", "ReverseBytesI"}

\* The right shifts and AbsI get the type of their first operand if it is
\* an in-body integer load and full int otherwise, and no memory node
\* changes its type.
ExceptionForRightShifts ==
  /\ \A i \in DOMAIN analyzer.log :
       LET e == analyzer.log[i]
       IN /\ (NarrowingApplies(e) /\ vloop.nodes[e.in].op \in RightShiftLike)
               => e.after[e.in] = IF FirstOperandIsLoad(e)
                                    THEN FirstOperandType(e)
                                    ELSE "T_INT"
          /\ \A m \in 1..Len(vloop.nodes) :
               vloop.nodes[m].op \in {"Load", "Store"} =>
                 e.after[m] = e.before[m]
  /\ \A m \in 1..Len(vloop.nodes) :
       (vloop.nodes[m].op \in {"Load", "Store"} /\ vloop.nodes[m].in_body)
         => analyzer.velt[m] = container_type(vloop.nodes[m])

\* The statement with a LShiftI narrowed to the type of n whatever its first
\* operand is. It does not hold: a LShiftI of an in-body integer load gets
\* the type of the load.
C28_ShiftException_AsClaimed ==
  TypesComputed =>
    /\ ExceptionForRightShifts
    /\ \A i \in DOMAIN analyzer.log :
         LET e == analyzer.log[i]
         IN (NarrowingApplies(e) /\ vloop.nodes[e.in].op = "LShiftI")
              => e.after[e.in] = e.before[e.n]

\* C28: when the input in to be narrowed is a right shift, AbsI or
\* ReverseBytesI, it gets the element type of its first operand if that
\* operand is an in-body integer load, and full int otherwise; a LShiftI
\* gets the element type of its first operand if that operand is an in-body
\* integer load too, and is narrowed to the type of n otherwise; memory
\* nodes never have their element type changed by the propagation.
C28_ShiftException ==
  TypesComputed =>
    /\ ExceptionForRightShifts
    /\ \A i \in DOMAIN analyzer.log :
         LET e == analyzer.log[i]
         IN (NarrowingApplies(e) /\ vloop.nodes[e.in].op = "LShiftI")
              => e.after[e.in] = IF FirstOperandIsLoad(e)
                                   THEN FirstOperandType(e)
                                   ELSE e.before[e.n]

\* A byte store of an AbsI of an unsigned byte load, which gets the type of
\* the load, not that of the store, and a LShiftI of that AbsI, which is
\* narrowed to the type of the byte store it is stored by.
C28_Witness ==
  /\ TypesComputed
  /\ \E i, j \in DOMAIN analyzer.log :
       LET e == analyzer.log[i]
           f == analyzer.log[j]
       IN /\ NarrowingApplies(e) /\ vloop.nodes[e.in].op = "AbsI"
          /\ FirstOperandIsLoad(e)
          /\ e.after[e.in] = "T_BOOLEAN" /\ e.before[e.n] = "T_BYTE"
          /\ NarrowingApplies(f) /\ vloop.nodes[f.in].op = "LShiftI"
          /\ ~FirstOperandIsLoad(f)
          /\ f.after[f.in] = "T_BYTE"

-----------------------------------------------------------------------------
(* Claims on the nodes accepted as invariants.                             *)

\* The nodes of the IR before the analysis that are part of invar: what the
\* matching paths aggregated, the nodes made to negate, convert, add and
\* shift them left out.
Aggregated ==
  IF vp_out.invar = NullNode THEN {}
  ELSE {n \in Subnodes(vp_out.invar) : n.op = "Parm"}

\* C29: every node aggregated into invar, whatever path matched it, is not
\* a member of the loop, and in a main loop its control dominates the
\* pre-loop head: a node outside the loop whose control does not dominate
\* the pre-loop head is never accepted there.
C29_InvariantAdmissible ==
  Constructed =>
    \A n \in Aggregated :
      /\ ~is_loop_member(n)
      /\ vp_in.env.is_main_loop => get_ctrl(n) = "above"
      /\ invariant(n, vp_in.env)

\* A main loop whose address has a node above the loop, which is
\* aggregated, negated, and one between the pre-loop and the loop, which
\* is not.
C29_Witness ==
  /\ Constructed
  /\ vp_in.env.is_main_loop
  /\ w_between \in Subnodes(vp_in.mem.adr)
  /\ x_above \in Aggregated
  /\ Binary("SubI", ConI(0), x_above) \in Subnodes(vp_out.invar)

-----------------------------------------------------------------------------
(* Claims on the subtraction matched by scaled_iv_plus_offset.             *)

\* The address is a + ConvI2L(x - y) or a + (x - y): one AddP whose offset
\* is, or converts, a subtraction.
OffsetIsSub ==
  /\ is_AddP(vp_in.mem.adr)
  /\ vp_in.mem.adr.adr = vp_in.mem.adr.base
  /\ \/ vp_in.mem.adr.off.op = "SubL"
     \/ /\ vp_in.mem.adr.off.op = "ConvI2L"
        /\ vp_in.mem.adr.off.in1.op = "SubI"

SubOfOffset ==
  IF vp_in.mem.adr.off.op = "SubL" THEN vp_in.mem.adr.off
  ELSE vp_in.mem.adr.off.in1

\* What x contributes as an offset term, and y as a scaled-iv-plus-offset
\* term, each matched on its own.
FreshVPointer == NewVPointer(Subnodes(vp_in.mem.adr))
MatchedX == offset_plus_k(SubOfOffset.in1, FALSE, FreshVPointer, vp_in.env)
MatchedY == scaled_iv_plus_offset(SubOfOffset.in2, FreshVPointer, vp_in.env)

\* x holds no iv and y does: x - y can only match with x as the offset
\* term and y as the scaled-iv-plus-offset term.
SubOfScaledIv ==
  /\ OffsetIsSub
  /\ iv \notin Subnodes(SubOfOffset.in1)
  /\ iv \in Subnodes(SubOfOffset.in2)

\* C30: when scaled_iv_plus_offset matches SubI/SubL(x, y) with x as an
\* offset term and y as a scaled-iv-plus-offset term that contributes scale
\* s, constant c and invariant v, the fields afterwards hold scale = -s,
\* offset = (offset of x) - c and invar = (invar of x) - v; and no match is
\* accepted with an iv term on both sides.
C30_SubtractionNegates ==
  Constructed =>
    /\ (valid(vp_out) /\ SubOfScaledIv) =>
         /\ vp_out.scale = -MatchedY.st.scale
         /\ vp_out.offset = MatchedX.st.offset - MatchedY.st.offset
         /\ \A rho \in ParmValues :
              Eval(vp_out.invar, 0, rho) =
                Eval(MatchedX.st.invar, 0, rho)
                  - Eval(MatchedY.st.invar, 0, rho)
    /\ (/\ OffsetIsSub
        /\ iv \in Subnodes(SubOfOffset.in1)
        /\ iv \in Subnodes(SubOfOffset.in2)) => ~valid(vp_out)

====
